---- MODULE Spec2Model ----
(***************************************************************************)
(* Risk scoring and crime-timeline forecasting of the early-warning        *)
(* system: backend/app/services/risk_service.py, its original              *)
(* utils/risk_calculator.py, the constant tables of                        *)
(* backend/app/core/constants.py and the POST /api/risks/calculate         *)
(* endpoint.                                                               *)
(*                                                                         *)
(* Numbers.  Python floats are modelled by exact rationals [n, d] in       *)
(* lowest terms.  Two places of the code are discontinuous in a float and  *)
(* are modelled with the IEEE-754 double behaviour:                        *)
(*   - the band comparisons and the clamp on risk_score: the float sum of  *)
(*     the six components can differ from the exact sum by a rounding      *)
(*     error (0.8*10*0.25 + 10*0.15 + 6*0.10 + 4*0.15 + 2*0.15 is          *)
(*     4.999999999999999, not 5); a float is [q, e] with q the exact value *)
(*     and e in {-1, 0, 1} the sign of its rounding error;                 *)
(*   - int(days * 0.7) and int(days * 1.4): see IntOfFloatMul.             *)
(* int(base_days * age * pattern * social) equals the floor of the exact   *)
(* product for every combination of modifiers the code can produce, so it  *)
(* is modelled by the exact floor.                                         *)
(*                                                                         *)
(* Strings.  Cyrillic literals are transliterated:                         *)
(*   Moshennichestvo, Krazha, Ubiystvo, Vymogatelstvo, Grabezh, Razboy,    *)
(*   Iznasilovanie, Khuliganstvo are the eight crime types; the emoji of   *)
(*   a level label is written as a colour word ("RED Kriticheskiy").       *)
(***************************************************************************)
EXTENDS Integers, Sequences, FiniteSets, TLC

VARIABLES
    RISK_WEIGHTS,        \* constants.py module-level dict
    PATTERN_RISKS,       \* constants.py module-level dict
    PREVENTION_RATES,    \* constants.py module-level dict
    CRIME_TIME_WINDOWS,  \* constants.py module-level dict (insertion-ordered)
    person_data,         \* the caller's input dict
    score_arg,           \* the score a caller passes to get_risk_level
    limit,               \* the query of a timeline request: << >> or <<limit>>
    fperr,               \* sign of the rounding error of the float component sum
    call,                \* the operation that produced result
    result,              \* the value the last call returned
    inputs,              \* concurrent callers: caller -> its person_data argument
    pc,                  \* concurrent callers: caller -> position in its call
    frame,               \* concurrent callers: caller -> local variables of its call
    returns,             \* concurrent callers: caller -> operation -> values returned
    ncalls               \* concurrent callers: calls started so far

vars == <<RISK_WEIGHTS, PATTERN_RISKS, PREVENTION_RATES, CRIME_TIME_WINDOWS,
          person_data, score_arg, limit, fperr, call, result,
          inputs, pc, frame, returns, ncalls>>

callers == <<inputs, pc, frame, returns, ncalls>>

tables == <<RISK_WEIGHTS, PATTERN_RISKS, PREVENTION_RATES, CRIME_TIME_WINDOWS>>

-----------------------------------------------------------------------------
(* Exact rational arithmetic *)

Abs(x) == IF x < 0 THEN -x ELSE x

RECURSIVE GCD(_, _)
GCD(a, b) == IF b = 0 THEN a ELSE GCD(b, a % b)

\* the rational n/d (d > 0) in lowest terms
Q(n, d) ==
    LET Reduced(g) == [n |-> n \div g, d |-> d \div g]
    IN  Reduced(GCD(Abs(n), d))

QInt(k) == [n |-> k, d |-> 1]

QAdd(x, y) == Q(x.n * y.d + y.n * x.d, x.d * y.d)

QSub(x, y) == Q(x.n * y.d - y.n * x.d, x.d * y.d)

QMul(x, y) == Q(x.n * y.n, x.d * y.d)

QLt(x, y) == x.n * y.d < y.n * x.d

QLe(x, y) == x.n * y.d <= y.n * x.d

QAbs(x) == [n |-> Abs(x.n), d |-> x.d]

\* |x - y| < 0.001
QClose(x, y) == QLt(QAbs(QSub(x, y)), Q(1, 1000))

\* floor of a non-negative rational
QFloor(x) == x.n \div x.d

\* a Python float: exact value q, sign e of the rounding error
Fl(q, e) == [q |-> q, e |-> e]

\* float < integer k, float >= integer k
FlLt(x, k) == QLt(x.q, QInt(k)) \/ (x.q = QInt(k) /\ x.e < 0)

FlGe(x, k) == ~FlLt(x, k)

FlGt(x, k) == QLt(QInt(k), x.q) \/ (x.q = QInt(k) /\ x.e > 0)

-----------------------------------------------------------------------------
(* Python dict access *)

\* d.get(key, default) on a dict modelled as a function
Get(d, key, default) == IF key \in DOMAIN d THEN d[key] ELSE default

\* an insertion-ordered dict is a sequence of [k, v] entries
Keys(od) == [i \in 1..Len(od) |-> od[i].k]

KeySet(od) == {od[i].k : i \in 1..Len(od)}

OGet(od, key, default) ==
    IF key \in KeySet(od)
    THEN od[CHOOSE i \in 1..Len(od) : od[i].k = key].v
    ELSE default

-----------------------------------------------------------------------------
(* backend/app/core/constants.py *)

\* the windows with the digits of the first one swapped (190 for 109)
CRIME_TIME_WINDOWS_190 == <<
    [k |-> "Moshennichestvo", v |-> 190],
    [k |-> "Krazha",          v |-> 146],
    [k |-> "Ubiystvo",        v |-> 143],
    [k |-> "Vymogatelstvo",   v |-> 144],
    [k |-> "Grabezh",         v |-> 148],
    [k |-> "Razboy",          v |-> 150],
    [k |-> "Iznasilovanie",   v |-> 157],
    [k |-> "Khuliganstvo",    v |-> 155] >>

\* days
CRIME_TIME_WINDOWS_0 == <<
    [k |-> "Moshennichestvo", v |-> 109],
    [k |-> "Krazha",          v |-> 146],
    [k |-> "Ubiystvo",        v |-> 143],
    [k |-> "Vymogatelstvo",   v |-> 144],
    [k |-> "Grabezh",         v |-> 148],
    [k |-> "Razboy",          v |-> 150],
    [k |-> "Iznasilovanie",   v |-> 157],
    [k |-> "Khuliganstvo",    v |-> 155] >>

\* percent
PREVENTION_RATES_0 == <<
    [k |-> "Moshennichestvo", v |-> Q(823, 10)],
    [k |-> "Krazha",          v |-> Q(873, 10)],
    [k |-> "Ubiystvo",        v |-> Q(970, 10)],
    [k |-> "Vymogatelstvo",   v |-> Q(1000, 10)],
    [k |-> "Grabezh",         v |-> Q(602, 10)],
    [k |-> "Razboy",          v |-> Q(202, 10)],
    [k |-> "Iznasilovanie",   v |-> Q(656, 10)],
    [k |-> "Khuliganstvo",    v |-> Q(450, 10)] >>

\* RISK_WEIGHTS with the history weight mistyped as 0.25
RISK_WEIGHTS_history25 == [
    pattern_weight    |-> Q(25, 100),
    history_weight    |-> Q(25, 100),
    time_weight       |-> Q(15, 100),
    age_weight        |-> Q(10, 100),
    social_weight     |-> Q(15, 100),
    escalation_weight |-> Q(15, 100) ]

RISK_WEIGHTS_0 == [
    pattern_weight    |-> Q(25, 100),
    history_weight    |-> Q(20, 100),
    time_weight       |-> Q(15, 100),
    age_weight        |-> Q(10, 100),
    social_weight     |-> Q(15, 100),
    escalation_weight |-> Q(15, 100) ]

\* the pattern risks with chronic_criminal at the top of the scale (1.0)
PATTERN_RISKS_chronic100 == [
    mixed_unstable   |-> Q(80, 100),
    chronic_criminal |-> Q(100, 100),
    escalating       |-> Q(85, 100),
    deescalating     |-> Q(40, 100),
    single           |-> Q(30, 100),
    unknown          |-> Q(50, 100) ]

PATTERN_RISKS_0 == [
    mixed_unstable   |-> Q(80, 100),
    chronic_criminal |-> Q(90, 100),
    escalating       |-> Q(85, 100),
    deescalating     |-> Q(40, 100),
    single           |-> Q(30, 100),
    unknown          |-> Q(50, 100) ]

-----------------------------------------------------------------------------
(* backend/app/services/risk_service.py : RiskCalculator *)

\* the steps of total_cases with strict bounds (< 2, < 5, < 10)
calculate_history_score_strict(data) ==
    LET total_cases    == Get(data, "total_cases", 0)
        criminal_count == Get(data, "criminal_count", 0)
        base_score     == IF total_cases < 2 THEN 2
                          ELSE IF total_cases < 5 THEN 4
                          ELSE IF total_cases < 10 THEN 6
                          ELSE 8
        Min10(score)   == IF QLt(QInt(10), score) THEN QInt(10) ELSE score
    IN  IF total_cases = 0 THEN QInt(0)
        ELSE Min10(IF criminal_count > 0
                   THEN QAdd(QInt(base_score),
                             QMul(Q(criminal_count, total_cases), QInt(2)))
                   ELSE QInt(base_score))

\* the ratio bonus taken from admin_count instead of criminal_count
calculate_history_score_admin_ratio(data) ==
    LET total_cases    == Get(data, "total_cases", 0)
        admin_count    == Get(data, "admin_count", 0)
        base_score     == IF total_cases <= 2 THEN 2
                          ELSE IF total_cases <= 5 THEN 4
                          ELSE IF total_cases <= 10 THEN 6
                          ELSE 8
        Min10(score)   == IF QLt(QInt(10), score) THEN QInt(10) ELSE score
    IN  IF total_cases = 0 THEN QInt(0)
        ELSE Min10(IF admin_count > 0
                   THEN QAdd(QInt(base_score),
                             QMul(Q(admin_count, total_cases), QInt(2)))
                   ELSE QInt(base_score))

calculate_history_score(data) ==
    LET total_cases    == Get(data, "total_cases", 0)
        criminal_count == Get(data, "criminal_count", 0)
        base_score     == IF total_cases <= 2 THEN 2
                          ELSE IF total_cases <= 5 THEN 4
                          ELSE IF total_cases <= 10 THEN 6
                          ELSE 8
        Min10(score)   == IF QLt(QInt(10), score) THEN QInt(10) ELSE score
    IN  IF total_cases = 0 THEN QInt(0)
        ELSE Min10(IF criminal_count > 0
                   THEN QAdd(QInt(base_score),
                             QMul(Q(criminal_count, total_cases), QInt(2)))
                   ELSE QInt(base_score))

\* the recidivism bonus from a rate of 2 on (>= 2)
calculate_time_score_from2(data) ==
    LET days_since_last == Get(data, "days_since_last", 365)
        time_score      == IF days_since_last < 30 THEN 10
                           ELSE IF days_since_last < 90 THEN 8
                           ELSE IF days_since_last < 180 THEN 6
                           ELSE IF days_since_last < 365 THEN 4
                           ELSE 2
        recidivism_rate == Get(data, "recidivism_rate", QInt(0))
    IN  IF QLe(QInt(2), recidivism_rate)
        THEN QInt(IF time_score + 2 < 10 THEN time_score + 2 ELSE 10)
        ELSE QInt(time_score)

calculate_time_score(data) ==
    LET days_since_last == Get(data, "days_since_last", 365)
        time_score      == IF days_since_last < 30 THEN 10
                           ELSE IF days_since_last < 90 THEN 8
                           ELSE IF days_since_last < 180 THEN 6
                           ELSE IF days_since_last < 365 THEN 4
                           ELSE 2
        recidivism_rate == Get(data, "recidivism_rate", QInt(0))
    IN  IF QLt(QInt(2), recidivism_rate)
        THEN QInt(IF time_score + 2 < 10 THEN time_score + 2 ELSE 10)
        ELSE QInt(time_score)

\* the youngest band from 14 on (14 <= age <= 25)
calculate_age_score_from14(data) ==
    LET age          == Get(data, "current_age", 35)
        age_at_first == Get(data, "age_at_first_violation", age)
        base_score   == IF 14 <= age /\ age <= 25 THEN 8
                        ELSE IF 26 <= age /\ age <= 35 THEN 6
                        ELSE IF 36 <= age /\ age <= 45 THEN 4
                        ELSE 2
        debut        == IF age_at_first < 18 THEN 3
                        ELSE IF age_at_first < 21 THEN 2
                        ELSE IF age_at_first < 25 THEN 1
                        ELSE 0
    IN  QInt(IF base_score + debut < 10 THEN base_score + debut ELSE 10)

\* a debut at 25 still earning the bonus of 1 (< 18, < 21, <= 25)
calculate_age_score_debut25(data) ==
    LET age          == Get(data, "current_age", 35)
        age_at_first == Get(data, "age_at_first_violation", age)
        base_score   == IF 18 <= age /\ age <= 25 THEN 8
                        ELSE IF 26 <= age /\ age <= 35 THEN 6
                        ELSE IF 36 <= age /\ age <= 45 THEN 4
                        ELSE 2
        debut        == IF age_at_first < 18 THEN 3
                        ELSE IF age_at_first < 21 THEN 2
                        ELSE IF age_at_first <= 25 THEN 1
                        ELSE 0
    IN  QInt(IF base_score + debut < 10 THEN base_score + debut ELSE 10)

\* the debut bonus with inclusive bounds (<= 18, <= 21, <= 25)
calculate_age_score_inclusive(data) ==
    LET age          == Get(data, "current_age", 35)
        age_at_first == Get(data, "age_at_first_violation", age)
        base_score   == IF 18 <= age /\ age <= 25 THEN 8
                        ELSE IF 26 <= age /\ age <= 35 THEN 6
                        ELSE IF 36 <= age /\ age <= 45 THEN 4
                        ELSE 2
        debut        == IF age_at_first <= 18 THEN 3
                        ELSE IF age_at_first <= 21 THEN 2
                        ELSE IF age_at_first <= 25 THEN 1
                        ELSE 0
    IN  QInt(IF base_score + debut < 10 THEN base_score + debut ELSE 10)

calculate_age_score(data) ==
    LET age          == Get(data, "current_age", 35)
        age_at_first == Get(data, "age_at_first_violation", age)
        base_score   == IF 18 <= age /\ age <= 25 THEN 8
                        ELSE IF 26 <= age /\ age <= 35 THEN 6
                        ELSE IF 36 <= age /\ age <= 45 THEN 4
                        ELSE 2
        debut        == IF age_at_first < 18 THEN 3
                        ELSE IF age_at_first < 21 THEN 2
                        ELSE IF age_at_first < 25 THEN 1
                        ELSE 0
    IN  QInt(IF base_score + debut < 10 THEN base_score + debut ELSE 10)

\* the social score with a family counted like a job (-2)
calculate_social_score_family2(data) ==
    LET Step(score, cond, delta) == IF cond THEN score + delta ELSE score
        Clamp(score) == IF score > 10 THEN 10 ELSE IF score < 0 THEN 0 ELSE score
    IN  QInt(Clamp(
            Step(Step(Step(Step(Step(Step(5,
                Get(data, "has_property", 0) = 1, -2),
                Get(data, "has_job", 0) = 1, -2),
                Get(data, "has_family", 0) = 1, -2),
                Get(data, "has_property", 0) = 0, 1),
                Get(data, "has_job", 0) = 0, 1),
                Get(data, "substance_abuse", 0) = 1, 2)))

calculate_social_score(data) ==
    LET Step(score, cond, delta) == IF cond THEN score + delta ELSE score
        Clamp(score) == IF score > 10 THEN 10 ELSE IF score < 0 THEN 0 ELSE score
    IN  QInt(Clamp(
            Step(Step(Step(Step(Step(Step(5,
                Get(data, "has_property", 0) = 1, -2),
                Get(data, "has_job", 0) = 1, -2),
                Get(data, "has_family", 0) = 1, -1),
                Get(data, "has_property", 0) = 0, 1),
                Get(data, "has_job", 0) = 0, 1),
                Get(data, "substance_abuse", 0) = 1, 2)))

\* multiple escalation from two transitions on (>= 2)
calculate_escalation_score_from2(data) ==
    LET has_escalation    == Get(data, "has_escalation", 0)
        admin_to_criminal == Get(data, "admin_to_criminal", 0)
    IN  IF has_escalation # 0
        THEN IF admin_to_criminal >= 2 THEN QInt(9)
             ELSE IF admin_to_criminal > 0 THEN QInt(7)
             ELSE QInt(5)
        ELSE IF Get(data, "admin_count", 0) > 5 THEN QInt(4)
             ELSE QInt(2)

calculate_escalation_score(data) ==
    LET has_escalation    == Get(data, "has_escalation", 0)
        admin_to_criminal == Get(data, "admin_to_criminal", 0)
    IN  IF has_escalation # 0
        THEN IF admin_to_criminal > 2 THEN QInt(9)
             ELSE IF admin_to_criminal > 0 THEN QInt(7)
             ELSE QInt(5)
        ELSE IF Get(data, "admin_count", 0) > 5 THEN QInt(4)
             ELSE QInt(2)

\* the six weighted components, in the insertion order of the dict
risk_components(data) ==
    LET pattern       == Get(data, "pattern_type", "unknown")
        pattern_score == QMul(Get(PATTERN_RISKS, pattern, Q(5, 10)), QInt(10))
    IN  [pattern    |-> QMul(pattern_score, RISK_WEIGHTS.pattern_weight),
         history    |-> QMul(calculate_history_score(data), RISK_WEIGHTS.history_weight),
         time       |-> QMul(calculate_time_score(data), RISK_WEIGHTS.time_weight),
         age        |-> QMul(calculate_age_score(data), RISK_WEIGHTS.age_weight),
         social     |-> QMul(calculate_social_score(data), RISK_WEIGHTS.social_weight),
         escalation |-> QMul(calculate_escalation_score(data), RISK_WEIGHTS.escalation_weight)]

\* sum(components.values())
SumComponents(c) ==
    QAdd(QAdd(QAdd(QAdd(QAdd(c.pattern, c.history), c.time), c.age), c.social),
         c.escalation)

\* max(0, min(10, x)) on a float
Clamp0to10(x) ==
    IF ~FlLt(x, 10) THEN Fl(QInt(10), 0)
    ELSE IF FlGt(x, 0) THEN x
    ELSE Fl(QInt(0), 0)

\* calculate_risk_score returning the clamped score as a percentage of the
\* maximum
calculate_risk_score_percent(data) ==
    LET Percent(risk_score) == Fl(QMul(risk_score.q, QInt(10)), risk_score.e)
        Scored(components) ==
            [risk_score |-> Percent(Clamp0to10(Fl(SumComponents(components), fperr))),
             components |-> components]
    IN  Scored(risk_components(data))

calculate_risk_score(data) ==
    LET Scored(components) ==
            [risk_score |-> Clamp0to10(Fl(SumComponents(components), fperr)),
             components |-> components]
    IN  Scored(risk_components(data))

\* the bands with exclusive lower bounds (> 7, > 5, > 3)
get_risk_level_exclusive(risk_score) ==
    IF FlGt(risk_score, 7)
    THEN <<"RED Kriticheskiy", "Trebuet nemedlennogo vmeshatelstva">>
    ELSE IF FlGt(risk_score, 5)
    THEN <<"YELLOW Vysokiy", "Usilennyy kontrol i monitoring">>
    ELSE IF FlGt(risk_score, 3)
    THEN <<"ORANGE Sredniy", "Standartnyy kontrol">>
    ELSE <<"GREEN Nizkiy", "Minimalnyy kontrol">>

get_risk_level(risk_score) ==
    IF FlGe(risk_score, 7)
    THEN <<"RED Kriticheskiy", "Trebuet nemedlennogo vmeshatelstva">>
    ELSE IF FlGe(risk_score, 5)
    THEN <<"YELLOW Vysokiy", "Usilennyy kontrol i monitoring">>
    ELSE IF FlGe(risk_score, 3)
    THEN <<"ORANGE Sredniy", "Standartnyy kontrol">>
    ELSE <<"GREEN Nizkiy", "Minimalnyy kontrol">>

\* the clamp without its lower bound: min(95, p)
Clamp5to95_no_floor(p) == IF QLt(p, QInt(95)) THEN p ELSE QInt(95)

\* max(5, min(95, p))
Clamp5to95(p) ==
    IF ~QLt(p, QInt(95)) THEN QInt(95)
    ELSE IF QLt(QInt(5), p) THEN p
    ELSE QInt(5)

\* the probability with the pattern modifier of the forecaster's crime sets
\* (escalating with Razboy or Ubiystvo)
calculate_crime_probability_forecaster_sets(data, crime_type, days_ahead) ==
    LET base_prob     == OGet(PREVENTION_RATES, crime_type, QInt(50))
        risk_score    == calculate_risk_score(data).risk_score
        risk_modifier == QMul(risk_score.q, Q(1, 10))
        TimeModifier(expected_days) ==
            IF 2 * days_ahead < expected_days THEN Q(6, 10)
            ELSE IF days_ahead < expected_days THEN Q(8, 10)
            ELSE IF 2 * days_ahead < 3 * expected_days THEN QInt(1)
            ELSE Q(7, 10)
        time_modifier == TimeModifier(OGet(CRIME_TIME_WINDOWS, crime_type, 140))
        pattern       == Get(data, "pattern_type", "unknown")
        pattern_modifier ==
            IF pattern = "chronic_criminal" /\ crime_type \in {"Krazha", "Grabezh"}
            THEN Q(13, 10)
            ELSE IF pattern = "escalating" /\ crime_type \in {"Razboy", "Ubiystvo"}
            THEN Q(12, 10)
            ELSE IF pattern = "mixed_unstable" THEN Q(11, 10)
            ELSE QInt(1)
        probability   == QMul(QMul(QMul(base_prob, risk_modifier), time_modifier),
                              pattern_modifier)
    IN  Clamp5to95(probability)

calculate_crime_probability(data, crime_type, days_ahead) ==
    LET base_prob     == OGet(PREVENTION_RATES, crime_type, QInt(50))
        risk_score    == calculate_risk_score(data).risk_score
        risk_modifier == QMul(risk_score.q, Q(1, 10))
        TimeModifier(expected_days) ==
            IF 2 * days_ahead < expected_days THEN Q(6, 10)
            ELSE IF days_ahead < expected_days THEN Q(8, 10)
            ELSE IF 2 * days_ahead < 3 * expected_days THEN QInt(1)
            ELSE Q(7, 10)
        time_modifier == TimeModifier(OGet(CRIME_TIME_WINDOWS, crime_type, 140))
        pattern       == Get(data, "pattern_type", "unknown")
        pattern_modifier ==
            IF pattern = "chronic_criminal" /\ crime_type \in {"Krazha", "Grabezh"}
            THEN Q(13, 10)
            ELSE IF pattern = "escalating" /\ crime_type \in {"Grabezh", "Razboy"}
            THEN Q(12, 10)
            ELSE IF pattern = "mixed_unstable" THEN Q(11, 10)
            ELSE QInt(1)
        probability   == QMul(QMul(QMul(base_prob, risk_modifier), time_modifier),
                              pattern_modifier)
    IN  Clamp5to95(probability)

-----------------------------------------------------------------------------
(* backend/app/services/risk_service.py : CrimeForecaster *)

\* the age modifier with 30 as the default age
get_age_modifier_default30(data) ==
    LET age == Get(data, "current_age", 30)
    IN  IF age < 25 THEN Q(8, 10)
        ELSE IF age < 35 THEN Q(9, 10)
        ELSE IF age < 45 THEN Q(11, 10)
        ELSE Q(13, 10)

get_age_modifier(data) ==
    LET age == Get(data, "current_age", 35)
    IN  IF age < 25 THEN Q(8, 10)
        ELSE IF age < 35 THEN Q(9, 10)
        ELSE IF age < 45 THEN Q(11, 10)
        ELSE Q(13, 10)

\* the pattern modifier with the crime sets of calculate_crime_probability
\* (escalating with Grabezh or Razboy)
get_pattern_modifier_probability_sets(data, crime_type) ==
    LET pattern   == Get(data, "pattern_type", "unknown")
        modifiers == [mixed_unstable   |-> Q(9, 10),
                      chronic_criminal |-> Q(7, 10),
                      escalating       |-> Q(6, 10),
                      deescalating     |-> Q(13, 10),
                      single           |-> Q(15, 10),
                      unknown          |-> QInt(1)]
        Specific(base_modifier) ==
            IF pattern = "chronic_criminal" /\ crime_type \in {"Krazha", "Grabezh"}
            THEN QMul(base_modifier, Q(9, 10))
            ELSE IF pattern = "escalating" /\ crime_type \in {"Grabezh", "Razboy"}
            THEN QMul(base_modifier, Q(8, 10))
            ELSE base_modifier
    IN  Specific(Get(modifiers, pattern, QInt(1)))

get_pattern_modifier(data, crime_type) ==
    LET pattern   == Get(data, "pattern_type", "unknown")
        modifiers == [mixed_unstable   |-> Q(9, 10),
                      chronic_criminal |-> Q(7, 10),
                      escalating       |-> Q(6, 10),
                      deescalating     |-> Q(13, 10),
                      single           |-> Q(15, 10),
                      unknown          |-> QInt(1)]
        Specific(base_modifier) ==
            IF pattern = "chronic_criminal" /\ crime_type \in {"Krazha", "Grabezh"}
            THEN QMul(base_modifier, Q(9, 10))
            ELSE IF pattern = "escalating" /\ crime_type \in {"Razboy", "Ubiystvo"}
            THEN QMul(base_modifier, Q(8, 10))
            ELSE base_modifier
    IN  Specific(Get(modifiers, pattern, QInt(1)))

get_social_modifier(data) ==
    LET Step(modifier, cond, factor) == IF cond THEN QMul(modifier, factor) ELSE modifier
    IN  Step(Step(Step(QInt(1),
            Get(data, "has_property", 0) = 0, Q(85, 100)),
            Get(data, "has_job", 0) = 0, Q(9, 10)),
            Get(data, "substance_abuse", 0) = 1, Q(8, 10))

\* the confidence label with the case factor counted from five cases on
calculate_confidence_from5(data, crime_type) ==
    LET f1 == IF Get(data, "total_cases", 0) >= 5 THEN 1 ELSE 0
        f2 == IF Get(data, "pattern_type", "unknown") # "unknown" THEN 1 ELSE 0
        f3 == IF Get(data, "has_escalation", 0) = 1 THEN 1 ELSE 0
        factors == f1 + f2 + f3
    IN  IF factors >= 3 THEN "Vysokaya"
        ELSE IF factors >= 2 THEN "Srednyaya"
        ELSE "Nizkaya"

calculate_confidence(data, crime_type) ==
    LET f1 == IF Get(data, "total_cases", 0) > 5 THEN 1 ELSE 0
        f2 == IF Get(data, "pattern_type", "unknown") # "unknown" THEN 1 ELSE 0
        f3 == IF Get(data, "has_escalation", 0) = 1 THEN 1 ELSE 0
        factors == f1 + f2 + f3
    IN  IF factors >= 3 THEN "Vysokaya"
        ELSE IF factors >= 2 THEN "Srednyaya"
        ELSE "Nizkaya"

get_timeline_risk_level(days) ==
    IF days < 60 THEN "RED Kriticheskiy period"
    ELSE IF days < 120 THEN "YELLOW Vysokiy risk"
    ELSE IF days < 180 THEN "ORANGE Sredniy risk"
    ELSE "GREEN Nizkiy risk"

\* the largest power of two strictly below k (k >= 2)
RECURSIVE Pow2Below(_)
Pow2Below(k) == IF k <= 2 THEN 1 ELSE 2 * Pow2Below((k + 1) \div 2)

\* int(days * c) in IEEE-754 double arithmetic for c = tenths/10, where the
\* double nearest to c is c - (deficit/10) * 2^-53 (0.7: deficit 4; 1.4:
\* deficit 8).  The real product of days and that double lies below the exact
\* decimal product by (deficit*days/10) * 2^-53.  When the decimal product is
\* an integer k, the doubles just below k are 2^(j-52) apart (2^j the largest
\* power of two below k), so the product rounds to the double below k, and
\* int() yields k - 1, exactly when deficit*days/10 > 2^j.  When the decimal
\* product is not an integer it is at least 0.1 away from one and int() is
\* its floor.
IntOfFloatMul(days, tenths, deficit) ==
    LET k == (days * tenths) \div 10
    IN  IF (days * tenths) % 10 = 0 /\ k >= 2 /\ deficit * days > 10 * Pow2Below(k)
        THEN k - 1
        ELSE k

\* round(x) of a non-negative x: the nearest integer, a half going to the
\* even neighbour
RoundHalfEven(x) ==
    LET Nearest(k, twice_frac) ==
            IF twice_frac > x.d \/ (twice_frac = x.d /\ k % 2 = 1) THEN k + 1 ELSE k
    IN  Nearest(x.n \div x.d, 2 * (x.n % x.d))

\* round(forecast_days * 0.7)
ci_lower_of_rounded(forecast_days) == RoundHalfEven(Q(7 * forecast_days, 10))

\* int(forecast_days * 0.7)
ci_lower_of(forecast_days) == IntOfFloatMul(forecast_days, 7, 4)

\* the upper bound with the factor mistyped as 0.4
ci_upper_of_04(forecast_days) == (forecast_days * 4) \div 10

\* int(forecast_days * 1.4)
ci_upper_of(forecast_days) == IntOfFloatMul(forecast_days, 14, 8)

\* the forecast with the day product rounded to the nearest integer
calculate_single_forecast_rounded(data, crime_type, base_days) ==
    LET age_modifier     == get_age_modifier(data)
        pattern_modifier == get_pattern_modifier(data, crime_type)
        social_modifier  == get_social_modifier(data)
        Clamp(days) == IF days > 365 THEN 365 ELSE IF days < 30 THEN 30 ELSE days
        Forecast(forecast_days) ==
            [crime_type  |-> crime_type,
             days        |-> forecast_days,
             date        |-> forecast_days,
             probability |-> calculate_crime_probability(data, crime_type, forecast_days),
             ci_lower    |-> ci_lower_of(forecast_days),
             ci_upper    |-> ci_upper_of(forecast_days),
             confidence  |-> calculate_confidence(data, crime_type),
             risk_level  |-> get_timeline_risk_level(forecast_days)]
    IN  Forecast(Clamp(RoundHalfEven(QMul(QMul(QMul(QInt(base_days), age_modifier),
                                               pattern_modifier), social_modifier))))

calculate_single_forecast(data, crime_type, base_days) ==
    LET age_modifier     == get_age_modifier(data)
        pattern_modifier == get_pattern_modifier(data, crime_type)
        social_modifier  == get_social_modifier(data)
        \* max(30, min(365, days))
        Clamp(days) == IF days > 365 THEN 365 ELSE IF days < 30 THEN 30 ELSE days
        Forecast(forecast_days) ==
            [crime_type  |-> crime_type,
             days        |-> forecast_days,
             date        |-> forecast_days,   \* offset from datetime.now(), in days
             probability |-> calculate_crime_probability(data, crime_type, forecast_days),
             ci_lower    |-> ci_lower_of(forecast_days),
             ci_upper    |-> ci_upper_of(forecast_days),
             confidence  |-> calculate_confidence(data, crime_type),
             risk_level  |-> get_timeline_risk_level(forecast_days)]
    IN  Forecast(Clamp(QFloor(QMul(QMul(QMul(QInt(base_days), age_modifier),
                                        pattern_modifier), social_modifier))))

\* the sort with reverse=True
RECURSIVE InsertByDays_descending(_, _)
InsertByDays_descending(e, s) ==
    IF s = <<>> THEN <<e>>
    ELSE IF e.v.days > Head(s).v.days THEN <<e>> \o s
    ELSE <<Head(s)>> \o InsertByDays_descending(e, Tail(s))

\* sorted(items, key=days): stable, an entry goes after the entries with a
\* key less than or equal to its own
RECURSIVE InsertByDays(_, _)
InsertByDays(e, s) ==
    IF s = <<>> THEN <<e>>
    ELSE IF e.v.days < Head(s).v.days THEN <<e>> \o s
    ELSE <<Head(s)>> \o InsertByDays(e, Tail(s))

RECURSIVE SortByDays(_)
SortByDays(s) ==
    IF s = <<>> THEN <<>>
    ELSE InsertByDays(s[Len(s)], SortByDays(SubSeq(s, 1, Len(s) - 1)))

forecast_crime_timeline(data) ==
    LET forecasts == [i \in 1..Len(CRIME_TIME_WINDOWS) |->
                        [k |-> CRIME_TIME_WINDOWS[i].k,
                         v |-> calculate_single_forecast(data, CRIME_TIME_WINDOWS[i].k,
                                                         CRIME_TIME_WINDOWS[i].v)]]
    IN  SortByDays(forecasts)

\* quick_risk_assessment taking the last entry of the forecast
quick_risk_assessment_last(data) ==
    LET Assessment(scored, level, forecasts) ==
            [risk_score        |-> scored.risk_score,
             risk_level        |-> level[1],
             recommendation    |-> level[2],
             components        |-> scored.components,
             most_likely_crime |-> IF forecasts # <<>> THEN forecasts[Len(forecasts)].v
                                   ELSE "None"]
        Assess(scored, forecasts) ==
            Assessment(scored, get_risk_level(scored.risk_score), forecasts)
    IN  Assess(calculate_risk_score(data), forecast_crime_timeline(data))

quick_risk_assessment(data) ==
    LET Assessment(scored, level, forecasts) ==
            [risk_score        |-> scored.risk_score,
             risk_level        |-> level[1],
             recommendation    |-> level[2],
             components        |-> scored.components,
             most_likely_crime |-> IF forecasts # <<>> THEN forecasts[1].v ELSE "None"]
        Assess(scored, forecasts) ==
            Assessment(scored, get_risk_level(scored.risk_score), forecasts)
    IN  Assess(calculate_risk_score(data), forecast_crime_timeline(data))

-----------------------------------------------------------------------------
(* utils/risk_calculator.py : the tables the original builds in __init__ and *)
(* inside calculate_crime_probability                                        *)

U_weights == [
    pattern_weight    |-> Q(25, 100),
    history_weight    |-> Q(20, 100),
    time_weight       |-> Q(15, 100),
    age_weight        |-> Q(10, 100),
    social_weight     |-> Q(15, 100),
    escalation_weight |-> Q(15, 100) ]

U_pattern_risks == [
    mixed_unstable   |-> Q(80, 100),
    chronic_criminal |-> Q(90, 100),
    escalating       |-> Q(85, 100),
    deescalating     |-> Q(40, 100),
    single           |-> Q(30, 100),
    unknown          |-> Q(50, 100) ]

\* the original's table with the 100.7 the constants file warns about
U_base_probabilities_drift == <<
    [k |-> "Krazha",          v |-> Q(873, 10)],
    [k |-> "Moshennichestvo", v |-> Q(823, 10)],
    [k |-> "Ubiystvo",        v |-> Q(970, 10)],
    [k |-> "Grabezh",         v |-> Q(602, 10)],
    [k |-> "Razboy",          v |-> Q(202, 10)],
    [k |-> "Vymogatelstvo",   v |-> Q(1007, 10)],
    [k |-> "Iznasilovanie",   v |-> Q(656, 10)],
    [k |-> "Khuliganstvo",    v |-> Q(450, 10)] >>

U_base_probabilities == <<
    [k |-> "Krazha",          v |-> Q(873, 10)],
    [k |-> "Moshennichestvo", v |-> Q(823, 10)],
    [k |-> "Ubiystvo",        v |-> Q(970, 10)],
    [k |-> "Grabezh",         v |-> Q(602, 10)],
    [k |-> "Razboy",          v |-> Q(202, 10)],
    [k |-> "Vymogatelstvo",   v |-> Q(1000, 10)],
    [k |-> "Iznasilovanie",   v |-> Q(656, 10)],
    [k |-> "Khuliganstvo",    v |-> Q(450, 10)] >>

U_time_windows == <<
    [k |-> "Moshennichestvo", v |-> 109],
    [k |-> "Krazha",          v |-> 146],
    [k |-> "Ubiystvo",        v |-> 143],
    [k |-> "Grabezh",         v |-> 148],
    [k |-> "Razboy",          v |-> 150],
    [k |-> "Iznasilovanie",   v |-> 157],
    [k |-> "Vymogatelstvo",   v |-> 144],
    [k |-> "Khuliganstvo",    v |-> 155] >>

U_base_windows == <<
    [k |-> "Moshennichestvo", v |-> 109],
    [k |-> "Krazha",          v |-> 146],
    [k |-> "Ubiystvo",        v |-> 143],
    [k |-> "Vymogatelstvo",   v |-> 144],
    [k |-> "Grabezh",         v |-> 148],
    [k |-> "Razboy",          v |-> 150],
    [k |-> "Iznasilovanie",   v |-> 157],
    [k |-> "Khuliganstvo",    v |-> 155] >>

-----------------------------------------------------------------------------
(* utils/risk_calculator.py : RiskCalculator *)

U_calculate_history_score(data) ==
    LET total_cases    == Get(data, "total_cases", 0)
        criminal_count == Get(data, "criminal_count", 0)
        base_score     == IF total_cases <= 2 THEN 2
                          ELSE IF total_cases <= 5 THEN 4
                          ELSE IF total_cases <= 10 THEN 6
                          ELSE 8
        Min10(score)   == IF QLt(QInt(10), score) THEN QInt(10) ELSE score
    IN  IF total_cases = 0 THEN QInt(0)
        ELSE Min10(IF criminal_count > 0
                   THEN QAdd(QInt(base_score),
                             QMul(Q(criminal_count, total_cases), QInt(2)))
                   ELSE QInt(base_score))

U_calculate_time_score(data) ==
    LET days_since_last == Get(data, "days_since_last", 365)
        time_score      == IF days_since_last < 30 THEN 10
                           ELSE IF days_since_last < 90 THEN 8
                           ELSE IF days_since_last < 180 THEN 6
                           ELSE IF days_since_last < 365 THEN 4
                           ELSE 2
        recidivism_rate == Get(data, "recidivism_rate", QInt(0))
    IN  IF QLt(QInt(2), recidivism_rate)
        THEN QInt(IF time_score + 2 < 10 THEN time_score + 2 ELSE 10)
        ELSE QInt(time_score)

U_calculate_age_score(data) ==
    LET age          == Get(data, "current_age", 35)
        age_at_first == Get(data, "age_at_first_violation", age)
        base_score   == IF 18 <= age /\ age <= 25 THEN 8
                        ELSE IF 26 <= age /\ age <= 35 THEN 6
                        ELSE IF 36 <= age /\ age <= 45 THEN 4
                        ELSE 2
        debut        == IF age_at_first < 18 THEN 3
                        ELSE IF age_at_first < 21 THEN 2
                        ELSE IF age_at_first < 25 THEN 1
                        ELSE 0
    IN  QInt(IF base_score + debut < 10 THEN base_score + debut ELSE 10)

U_calculate_social_score(data) ==
    LET Step(score, cond, delta) == IF cond THEN score + delta ELSE score
        Clamp(score) == IF score > 10 THEN 10 ELSE IF score < 0 THEN 0 ELSE score
    IN  QInt(Clamp(
            Step(Step(Step(Step(Step(Step(5,
                Get(data, "has_property", 0) = 1, -2),
                Get(data, "has_job", 0) = 1, -2),
                Get(data, "has_family", 0) = 1, -1),
                Get(data, "has_property", 0) = 0, 1),
                Get(data, "has_job", 0) = 0, 1),
                Get(data, "substance_abuse", 0) = 1, 2)))

U_calculate_escalation_score(data) ==
    LET has_escalation    == Get(data, "has_escalation", 0)
        admin_to_criminal == Get(data, "admin_to_criminal", 0)
    IN  IF has_escalation # 0
        THEN IF admin_to_criminal > 2 THEN QInt(9)
             ELSE IF admin_to_criminal > 0 THEN QInt(7)
             ELSE QInt(5)
        ELSE IF Get(data, "admin_count", 0) > 5 THEN QInt(4)
             ELSE QInt(2)

\* the six weighted components, in the insertion order of the dict
U_risk_components(data) ==
    LET pattern       == Get(data, "pattern_type", "unknown")
        pattern_score == QMul(Get(U_pattern_risks, pattern, Q(5, 10)), QInt(10))
    IN  [pattern    |-> QMul(pattern_score, U_weights.pattern_weight),
         history    |-> QMul(U_calculate_history_score(data), U_weights.history_weight),
         time       |-> QMul(U_calculate_time_score(data), U_weights.time_weight),
         age        |-> QMul(U_calculate_age_score(data), U_weights.age_weight),
         social     |-> QMul(U_calculate_social_score(data), U_weights.social_weight),
         escalation |-> QMul(U_calculate_escalation_score(data), U_weights.escalation_weight)]

U_calculate_risk_score(data) ==
    LET Scored(components) ==
            [risk_score |-> Clamp0to10(Fl(SumComponents(components), fperr)),
             components |-> components]
    IN  Scored(U_risk_components(data))

U_get_risk_level(risk_score) ==
    IF FlGe(risk_score, 7)
    THEN <<"RED Kriticheskiy", "Trebuet nemedlennogo vmeshatelstva">>
    ELSE IF FlGe(risk_score, 5)
    THEN <<"YELLOW Vysokiy", "Usilennyy kontrol i monitoring">>
    ELSE IF FlGe(risk_score, 3)
    THEN <<"ORANGE Sredniy", "Standartnyy kontrol">>
    ELSE <<"GREEN Nizkiy", "Minimalnyy kontrol">>

U_calculate_crime_probability(data, crime_type, days_ahead) ==
    LET base_prob     == OGet(U_base_probabilities, crime_type, QInt(50))
        risk_score    == U_calculate_risk_score(data).risk_score
        risk_modifier == QMul(risk_score.q, Q(1, 10))
        TimeModifier(expected_days) ==
            IF 2 * days_ahead < expected_days THEN Q(6, 10)
            ELSE IF days_ahead < expected_days THEN Q(8, 10)
            ELSE IF 2 * days_ahead < 3 * expected_days THEN QInt(1)
            ELSE Q(7, 10)
        time_modifier == TimeModifier(OGet(U_time_windows, crime_type, 140))
        pattern       == Get(data, "pattern_type", "unknown")
        pattern_modifier ==
            IF pattern = "chronic_criminal" /\ crime_type \in {"Krazha", "Grabezh"}
            THEN Q(13, 10)
            ELSE IF pattern = "escalating" /\ crime_type \in {"Grabezh", "Razboy"}
            THEN Q(12, 10)
            ELSE IF pattern = "mixed_unstable" THEN Q(11, 10)
            ELSE QInt(1)
        probability   == QMul(QMul(QMul(base_prob, risk_modifier), time_modifier),
                              pattern_modifier)
    IN  Clamp5to95(probability)

-----------------------------------------------------------------------------
(* utils/risk_calculator.py : CrimeForecaster *)

U_get_age_modifier(data) ==
    LET age == Get(data, "current_age", 35)
    IN  IF age < 25 THEN Q(8, 10)
        ELSE IF age < 35 THEN Q(9, 10)
        ELSE IF age < 45 THEN Q(11, 10)
        ELSE Q(13, 10)

U_get_pattern_modifier(data, crime_type) ==
    LET pattern   == Get(data, "pattern_type", "unknown")
        modifiers == [mixed_unstable   |-> Q(9, 10),
                      chronic_criminal |-> Q(7, 10),
                      escalating       |-> Q(6, 10),
                      deescalating     |-> Q(13, 10),
                      single           |-> Q(15, 10),
                      unknown          |-> QInt(1)]
        Specific(base_modifier) ==
            IF pattern = "chronic_criminal" /\ crime_type \in {"Krazha", "Grabezh"}
            THEN QMul(base_modifier, Q(9, 10))
            ELSE IF pattern = "escalating" /\ crime_type \in {"Razboy", "Ubiystvo"}
            THEN QMul(base_modifier, Q(8, 10))
            ELSE base_modifier
    IN  Specific(Get(modifiers, pattern, QInt(1)))

U_get_social_modifier(data) ==
    LET Step(modifier, cond, factor) == IF cond THEN QMul(modifier, factor) ELSE modifier
    IN  Step(Step(Step(QInt(1),
            Get(data, "has_property", 0) = 0, Q(85, 100)),
            Get(data, "has_job", 0) = 0, Q(9, 10)),
            Get(data, "substance_abuse", 0) = 1, Q(8, 10))

U_calculate_confidence(data, crime_type) ==
    LET f1 == IF Get(data, "total_cases", 0) > 5 THEN 1 ELSE 0
        f2 == IF Get(data, "pattern_type", "unknown") # "unknown" THEN 1 ELSE 0
        f3 == IF Get(data, "has_escalation", 0) = 1 THEN 1 ELSE 0
        factors == f1 + f2 + f3
    IN  IF factors >= 3 THEN "Vysokaya"
        ELSE IF factors >= 2 THEN "Srednyaya"
        ELSE "Nizkaya"

U_get_timeline_risk_level(days) ==
    IF days < 60 THEN "RED Kriticheskiy period"
    ELSE IF days < 120 THEN "YELLOW Vysokiy risk"
    ELSE IF days < 180 THEN "ORANGE Sredniy risk"
    ELSE "GREEN Nizkiy risk"

U_calculate_single_forecast(data, crime_type, base_days) ==
    LET age_modifier     == U_get_age_modifier(data)
        pattern_modifier == U_get_pattern_modifier(data, crime_type)
        social_modifier  == U_get_social_modifier(data)
        \* max(30, min(365, days))
        Clamp(days) == IF days > 365 THEN 365 ELSE IF days < 30 THEN 30 ELSE days
        Forecast(forecast_days) ==
            [crime_type  |-> crime_type,
             days        |-> forecast_days,
             date        |-> forecast_days,   \* offset from datetime.now(), in days
             probability |-> U_calculate_crime_probability(data, crime_type, forecast_days),
             ci_lower    |-> ci_lower_of(forecast_days),
             ci_upper    |-> ci_upper_of(forecast_days),
             confidence  |-> U_calculate_confidence(data, crime_type),
             risk_level  |-> U_get_timeline_risk_level(forecast_days)]
    IN  Forecast(Clamp(QFloor(QMul(QMul(QMul(QInt(base_days), age_modifier),
                                        pattern_modifier), social_modifier))))

U_forecast_crime_timeline(data) ==
    LET forecasts == [i \in 1..Len(U_base_windows) |->
                        [k |-> U_base_windows[i].k,
                         v |-> U_calculate_single_forecast(data, U_base_windows[i].k,
                                                         U_base_windows[i].v)]]
    IN  SortByDays(forecasts)

U_quick_risk_assessment(data) ==
    LET Assessment(scored, level, forecasts) ==
            [risk_score        |-> scored.risk_score,
             risk_level        |-> level[1],
             recommendation    |-> level[2],
             components        |-> scored.components,
             most_likely_crime |-> IF forecasts # <<>> THEN forecasts[1].v ELSE "None"]
        Assess(scored, forecasts) ==
            Assessment(scored, U_get_risk_level(scored.risk_score), forecasts)
    IN  Assess(U_calculate_risk_score(data), U_forecast_crime_timeline(data))

-----------------------------------------------------------------------------
(* backend/app/schemas/risk.py : RiskCalculationRequest *)

PatternType == {"mixed_unstable", "chronic_criminal", "escalating",
                "deescalating", "single", "unknown"}

Has(d, key) == key \in DOMAIN d

\* RiskCalculationRequest without its three validators: the field
\* constraints alone
RequestAccepted_fields_only(body) ==
    /\ Has(body, "pattern_type") /\ body.pattern_type \in PatternType
    /\ Has(body, "total_cases") /\ body.total_cases >= 0
    /\ Has(body, "criminal_count") => body.criminal_count >= 0
    /\ Has(body, "admin_count") => body.admin_count >= 0
    /\ Has(body, "days_since_last") => body.days_since_last >= 0
    /\ Has(body, "recidivism_rate") => QLe(QInt(0), body.recidivism_rate)
    /\ Has(body, "current_age") /\ body.current_age >= 14 /\ body.current_age <= 100
    /\ Has(body, "age_at_first_violation") =>
          /\ body.age_at_first_violation >= 14
          /\ body.age_at_first_violation <= 100
    /\ \A f \in {"has_property", "has_job", "has_family", "substance_abuse",
                 "has_escalation"} : Has(body, f) => body[f] \in {0, 1}
    /\ Has(body, "admin_to_criminal") => body.admin_to_criminal >= 0

\* the field constraints (ge/le, required, enum) and the three validators;
\* a validator runs only for a field present in the body, and only sees the
\* fields declared before it
RequestAccepted(body) ==
    /\ Has(body, "pattern_type") /\ body.pattern_type \in PatternType
    /\ Has(body, "total_cases") /\ body.total_cases >= 0
    /\ Has(body, "criminal_count") =>
          body.criminal_count >= 0 /\ body.criminal_count <= body.total_cases
    /\ Has(body, "admin_count") =>
          body.admin_count >= 0 /\ body.admin_count <= body.total_cases
    /\ Has(body, "days_since_last") => body.days_since_last >= 0
    /\ Has(body, "recidivism_rate") => QLe(QInt(0), body.recidivism_rate)
    /\ Has(body, "current_age") /\ body.current_age >= 14 /\ body.current_age <= 100
    /\ Has(body, "age_at_first_violation") =>
          /\ body.age_at_first_violation >= 14
          /\ body.age_at_first_violation <= 100
          /\ body.age_at_first_violation <= body.current_age
    /\ \A f \in {"has_property", "has_job", "has_family", "substance_abuse",
                 "has_escalation"} : Has(body, f) => body[f] \in {0, 1}
    /\ Has(body, "admin_to_criminal") => body.admin_to_criminal >= 0

\* the parsed model: every field but age_at_first_violation gets its default
\* (age_at_first_violation stays None and is dropped by exclude_none)
RequestDict(body) ==
    [f \in DOMAIN body \cup {"criminal_count", "admin_count", "days_since_last",
                             "recidivism_rate", "has_property", "has_job",
                             "has_family", "substance_abuse", "has_escalation",
                             "admin_to_criminal"} |->
        IF Has(body, f) THEN body[f]
        ELSE IF f = "days_since_last" THEN 365
        ELSE IF f = "recidivism_rate" THEN QInt(0)
        ELSE 0]

to_calculator_dict(body) ==
    LET FirstViolation(data) ==
            IF ~Has(data, "age_at_first_violation")
            THEN [f \in DOMAIN data \cup {"age_at_first_violation"} |->
                     IF f = "age_at_first_violation" THEN data.current_age
                     ELSE data[f]]
            ELSE data
        AdminCount(data) ==
            IF Get(data, "admin_count", "None") = 0
               /\ Get(data, "criminal_count", 0) < Get(data, "total_cases", 0)
            THEN [data EXCEPT !.admin_count =
                     data.total_cases - Get(data, "criminal_count", 0)]
            ELSE data
    IN  AdminCount(FirstViolation(RequestDict(body)))

-----------------------------------------------------------------------------
(* backend/app/services/risk_service.py : RiskService *)

validate_person_data(data) ==
    /\ \A field \in {"pattern_type", "total_cases", "current_age"} : Has(data, field)
    /\ Has(data, "total_cases") => data.total_cases >= 0
    /\ Has(data, "current_age") => (0 < data.current_age /\ data.current_age < 120)
    /\ Has(data, "pattern_type") => data.pattern_type \in DOMAIN PATTERN_RISKS

calculate_risk_for_person_dict(data) ==
    LET Result(scored, level) ==
            [person_data      |-> data,
             risk_score       |-> scored.risk_score,
             risk_components  |-> scored.components,
             risk_level       |-> level[1],
             recommendation   |-> level[2],
             forecasts        |-> forecast_crime_timeline(data),
             quick_assessment |-> quick_risk_assessment(data)]
        Levelled(scored) == Result(scored, get_risk_level(scored.risk_score))
    IN  Levelled(calculate_risk_score(data))

-----------------------------------------------------------------------------
(* backend/app/api/endpoints/risks.py : POST /api/risks/calculate *)

\* risk_level.split(' ', 1)[1]: the label without its emoji
RiskCategory(risk_level) ==
    CASE risk_level = "RED Kriticheskiy" -> "Kriticheskiy"
      [] risk_level = "YELLOW Vysokiy"   -> "Vysokiy"
      [] risk_level = "ORANGE Sredniy"   -> "Sredniy"
      [] risk_level = "GREEN Nizkiy"     -> "Nizkiy"
      [] OTHER                           -> risk_level

calculate_risk(body) ==
    LET Response(r) ==
            IF FlLt(r.risk_score, 0) \/ FlGt(r.risk_score, 10)
            THEN [status_code |-> 500]
            ELSE [status_code    |-> 200,
                  risk_score     |-> r.risk_score,
                  risk_level     |-> r.risk_level,
                  risk_category  |-> RiskCategory(r.risk_level),
                  recommendation |-> r.recommendation,
                  components     |-> r.risk_components,
                  person_data    |-> r.person_data]
        Handle(person_dict) ==
            IF ~validate_person_data(person_dict) THEN [status_code |-> 422]
            ELSE Response(calculate_risk_for_person_dict(person_dict))
    IN  IF ~RequestAccepted(body) THEN [status_code |-> 422]
        ELSE Handle(to_calculator_dict(body))

-----------------------------------------------------------------------------
(* Input domain *)

Fields == {"pattern_type", "total_cases", "criminal_count", "admin_count",
           "days_since_last", "recidivism_rate", "current_age",
           "age_at_first_violation", "has_property", "has_job", "has_family",
           "substance_abuse", "has_escalation", "admin_to_criminal"}

\* the largest total_cases drawn
MaxCases == 11

\* the largest admin_to_criminal drawn
MaxTransitions == 3

\* <<total_cases, criminal_count, admin_count>>: one triple for each step of
\* the history score, the last with every case criminal
CaseTriples == {<<0, 0, 0>>, <<2, 2, 0>>, <<5, 2, 3>>, <<10, 0, 10>>,
                <<MaxCases, MaxCases, 0>>}

\* <<current_age, age_at_first_violation>>: each step of the age score and of
\* the age modifier, each debut bonus
AgePairs == {<<16, 16>>, <<22, 16>>, <<28, 21>>, <<40, 24>>, <<100, 30>>}

\* <<days_since_last, recidivism_rate, has_family, has_escalation,
\*   admin_to_criminal>>: each step of the time score and each branch of the
\* escalation score, from the riskiest profile to the safest
Profiles == {<<10,  Q(25, 10), 0, 1, MaxTransitions>>,
             <<60,  Q(15, 10), 0, 0, 1>>,
             <<100, QInt(2),   1, 1, 1>>,
             <<200, Q(25, 10), 0, 1, 0>>,
             <<365, QInt(0),   1, 0, 0>>}

Record(p, c, a, hp, hj, sa, f) ==
    [pattern_type |-> p,
     total_cases |-> c[1], criminal_count |-> c[2], admin_count |-> c[3],
     days_since_last |-> f[1], recidivism_rate |-> f[2],
     current_age |-> a[1], age_at_first_violation |-> a[2],
     has_property |-> hp, has_job |-> hj, has_family |-> f[3],
     substance_abuse |-> sa,
     has_escalation |-> f[4], admin_to_criminal |-> f[5]]

Records ==
    {Record(p, c, a, hp, hj, sa, f) :
        p \in PatternType, c \in CaseTriples, a \in AgePairs,
        hp \in {0, 1}, hj \in {0, 1}, sa \in {0, 1}, f \in Profiles}

\* the largest number of fields a partial record lacks (the empty record is
\* drawn as well)
MaxMissing == 2

\* records none of whose fields holds its default
BaseRecords ==
    {Record(p, c, a, 1, 1, 1, f) :
        p \in {"chronic_criminal", "escalating"},
        c \in {<<5, 2, 3>>, <<MaxCases, MaxCases, 0>>},
        a \in {<<22, 16>>, <<40, 24>>},
        f \in {<<10, Q(25, 10), 0, 1, MaxTransitions>>, <<100, QInt(2), 1, 1, 1>>}}

MissingSets == {M \in SUBSET Fields : Cardinality(M) <= MaxMissing} \cup {Fields}

PartialRecords ==
    {[f \in Fields \ M |-> r[f]] : r \in BaseRecords, M \in MissingSets}

\* the largest score passed to get_risk_level, in thousandths
MaxScoreMilli == 10000

\* the validated domain of the specification
Valid(d) ==
    /\ DOMAIN d = Fields
    /\ d.pattern_type \in PatternType
    /\ d.total_cases >= 0 /\ d.criminal_count >= 0 /\ d.admin_count >= 0
    /\ d.criminal_count <= d.total_cases /\ d.admin_count <= d.total_cases
    /\ 14 <= d.current_age /\ d.current_age <= 100
    /\ d.age_at_first_violation <= d.current_age
    /\ \A f \in {"has_property", "has_job", "has_family", "substance_abuse",
                 "has_escalation"} : d[f] \in {0, 1}

\* the rounding error of the component sum shows only where the exact sum
\* meets a comparison constant
RoundingSigns(d) ==
    IF SumComponents([pattern |-> QMul(QMul(Get(PATTERN_RISKS_0, Get(d, "pattern_type", "unknown"), Q(5, 10)), QInt(10)), RISK_WEIGHTS_0.pattern_weight),
                      history |-> QMul(calculate_history_score(d), RISK_WEIGHTS_0.history_weight),
                      time |-> QMul(calculate_time_score(d), RISK_WEIGHTS_0.time_weight),
                      age |-> QMul(calculate_age_score(d), RISK_WEIGHTS_0.age_weight),
                      social |-> QMul(calculate_social_score(d), RISK_WEIGHTS_0.social_weight),
                      escalation |-> QMul(calculate_escalation_score(d), RISK_WEIGHTS_0.escalation_weight)])
          \in {QInt(0), QInt(3), QInt(5), QInt(7), QInt(10)}
    THEN {-1, 0, 1}
    ELSE {0}

-----------------------------------------------------------------------------
(* The state machine: a caller holds a record and calls the operations *)

\* no concurrent callers
NoCallers ==
    /\ inputs = <<>>
    /\ pc = <<>>
    /\ frame = <<>>
    /\ returns = <<>>
    /\ ncalls = 0

InitTables ==
    /\ RISK_WEIGHTS = RISK_WEIGHTS_0
    /\ PATTERN_RISKS = PATTERN_RISKS_0
    /\ PREVENTION_RATES = PREVENTION_RATES_0
    /\ CRIME_TIME_WINDOWS = CRIME_TIME_WINDOWS_0

Init ==
    /\ InitTables
    /\ person_data \in Records
    /\ score_arg = Fl(QInt(0), 0)
    /\ limit = << >>
    /\ fperr \in RoundingSigns(person_data)
    /\ call = "none"
    /\ result = "None"
    /\ NoCallers

\* a call on the caller's record returns value
Returns(name, value) ==
    /\ call = "none"
    /\ call' = name
    /\ result' = value
    /\ UNCHANGED <<tables, person_data, score_arg, limit, fperr, callers>>

CalculateRiskScore == Returns("calculate_risk_score", calculate_risk_score(person_data))

ForecastCrimeTimeline == Returns("forecast_crime_timeline", forecast_crime_timeline(person_data))

QuickRiskAssessment == Returns("quick_risk_assessment", quick_risk_assessment(person_data))

U_CalculateRiskScore == Returns("U_calculate_risk_score", U_calculate_risk_score(person_data))

U_ForecastCrimeTimeline == Returns("U_forecast_crime_timeline", U_forecast_crime_timeline(person_data))

U_QuickRiskAssessment == Returns("U_quick_risk_assessment", U_quick_risk_assessment(person_data))

ApiCalculateRisk == Returns("calculate_risk", calculate_risk(person_data))

Next ==
    \/ CalculateRiskScore
    \/ ForecastCrimeTimeline
    \/ QuickRiskAssessment
    \/ U_CalculateRiskScore
    \/ U_ForecastCrimeTimeline
    \/ U_QuickRiskAssessment
    \/ ApiCalculateRisk

Spec == Init /\ [][Next]_vars

\* callers whose records lack fields
InitPartial ==
    /\ InitTables
    /\ person_data \in PartialRecords
    /\ score_arg = Fl(QInt(0), 0)
    /\ limit = << >>
    /\ fperr \in RoundingSigns(person_data)
    /\ call = "none"
    /\ result = "None"
    /\ NoCallers

SpecPartial == InitPartial /\ [][Next]_vars

-----------------------------------------------------------------------------
(* The risk bands of backend/app/core/constants.py and of                   *)
(* utils/data_loader.py                                                     *)

\* range (lo, hi), label and description of each level key
RISK_CATEGORIES == [
    critical |-> [range |-> <<7, 10>>, label |-> "RED Kriticheskiy",
                  description |-> "Trebuet nemedlennogo vmeshatelstva"],
    high     |-> [range |-> <<5, 7>>,  label |-> "YELLOW Vysokiy",
                  description |-> "Usilennyy kontrol i monitoring"],
    medium   |-> [range |-> <<3, 5>>,  label |-> "ORANGE Sredniy",
                  description |-> "Standartnyy kontrol"],
    low      |-> [range |-> <<0, 3>>,  label |-> "GREEN Nizkiy",
                  description |-> "Minimalnyy kontrol"] ]

RISK_THRESHOLD_CRITICAL == 7

RISK_THRESHOLD_HIGH == 5

RISK_THRESHOLD_MEDIUM == 3

get_risk_category_by_score(score) ==
    IF FlGe(score, RISK_THRESHOLD_CRITICAL) THEN RISK_CATEGORIES["critical"].label
    ELSE IF FlGe(score, RISK_THRESHOLD_HIGH) THEN RISK_CATEGORIES["high"].label
    ELSE IF FlGe(score, RISK_THRESHOLD_MEDIUM) THEN RISK_CATEGORIES["medium"].label
    ELSE RISK_CATEGORIES["low"].label

\* the level key with exclusive thresholds (> 7, > 5, > 3)
get_risk_level_key_exclusive(score) ==
    IF FlGt(score, RISK_THRESHOLD_CRITICAL) THEN "critical"
    ELSE IF FlGt(score, RISK_THRESHOLD_HIGH) THEN "high"
    ELSE IF FlGt(score, RISK_THRESHOLD_MEDIUM) THEN "medium"
    ELSE "low"

get_risk_level_key(score) ==
    IF FlGe(score, RISK_THRESHOLD_CRITICAL) THEN "critical"
    ELSE IF FlGe(score, RISK_THRESHOLD_HIGH) THEN "high"
    ELSE IF FlGe(score, RISK_THRESHOLD_MEDIUM) THEN "medium"
    ELSE "low"

\* utils/data_loader.py
get_risk_category(risk_score) ==
    IF FlGe(risk_score, 7) THEN "RED Kriticheskiy"
    ELSE IF FlGe(risk_score, 5) THEN "YELLOW Vysokiy"
    ELSE IF FlGe(risk_score, 3) THEN "ORANGE Sredniy"
    ELSE "GREEN Nizkiy"

\* a caller passes a score to get_risk_level
InitLevel ==
    /\ InitTables
    /\ person_data = [pattern_type |-> "unknown"]
    /\ score_arg \in {Fl(Q(k, 1000), e) : k \in 0..MaxScoreMilli, e \in {-1, 0, 1}}
    /\ limit = << >>
    /\ fperr = 0
    /\ call = "none"
    /\ result = "None"
    /\ NoCallers

GetRiskLevel ==
    /\ call = "none"
    /\ call' = "get_risk_level"
    /\ result' = get_risk_level(score_arg)
    /\ UNCHANGED <<tables, person_data, score_arg, limit, fperr, callers>>

U_GetRiskLevel ==
    /\ call = "none"
    /\ call' = "U_get_risk_level"
    /\ result' = U_get_risk_level(score_arg)
    /\ UNCHANGED <<tables, person_data, score_arg, limit, fperr, callers>>

GetRiskCategoryByScore ==
    /\ call = "none"
    /\ call' = "get_risk_category_by_score"
    /\ result' = get_risk_category_by_score(score_arg)
    /\ UNCHANGED <<tables, person_data, score_arg, limit, fperr, callers>>

GetRiskLevelKey ==
    /\ call = "none"
    /\ call' = "get_risk_level_key"
    /\ result' = get_risk_level_key(score_arg)
    /\ UNCHANGED <<tables, person_data, score_arg, limit, fperr, callers>>

GetRiskCategory ==
    /\ call = "none"
    /\ call' = "get_risk_category"
    /\ result' = get_risk_category(score_arg)
    /\ UNCHANGED <<tables, person_data, score_arg, limit, fperr, callers>>

NextLevel ==
    \/ GetRiskLevel
    \/ U_GetRiskLevel
    \/ GetRiskCategoryByScore
    \/ GetRiskLevelKey
    \/ GetRiskCategory

SpecLevel == InitLevel /\ [][NextLevel]_vars

-----------------------------------------------------------------------------
(* Concurrent callers.  Each call runs step by step; what it computes on    *)
(* the way lives in the local variables of the call (its frame).  The       *)
(* tables are only read.                                                    *)

Callers == {"c1", "c2"}

Operations == {"calculate_risk_score", "forecast_crime_timeline",
               "quick_risk_assessment"}

\* the largest number of calls started, over all callers
MaxCalls == 3

\* a high-risk and a medium-risk record
CallerRecords ==
    {Record("escalating", <<5, 2, 3>>, <<22, 16>>, 0, 0, 1,
            <<10, Q(25, 10), 0, 1, MaxTransitions>>),
     Record("mixed_unstable", <<5, 2, 3>>, <<28, 21>>, 0, 1, 0,
            <<60, Q(15, 10), 0, 0, 1>>)}

\* components = {} ... return risk_score, components
score_result(components) ==
    [risk_score |-> Clamp0to10(Fl(SumComponents(components), fperr)),
     components |-> components]

\* the loop over base_windows.items(), before the sort
unsorted_forecasts(data) ==
    [i \in 1..Len(CRIME_TIME_WINDOWS) |->
        [k |-> CRIME_TIME_WINDOWS[i].k,
         v |-> calculate_single_forecast(data, CRIME_TIME_WINDOWS[i].k,
                                         CRIME_TIME_WINDOWS[i].v)]]

\* the dict quick_risk_assessment returns
quick_result(scored, level, forecasts) ==
    [risk_score        |-> scored.risk_score,
     risk_level        |-> level[1],
     recommendation    |-> level[2],
     components        |-> scored.components,
     most_likely_crime |-> IF forecasts # <<>> THEN forecasts[1].v ELSE "None"]

\* components kept in one attribute all callers share
Components_shared(c) ==
    frame[CHOOSE d \in Callers : pc[d] = "score_sum"].components

\* the local dict components of c's calculate_risk_score call
Components(c) == frame[c].components

\* forecasts kept in one attribute all callers share
Forecasts_shared(c) ==
    frame[CHOOSE d \in Callers : pc[d] = "forecast_sort"].forecasts

\* the local dict forecasts of c's forecast_crime_timeline call
Forecasts(c) == frame[c].forecasts

InitCalls ==
    /\ InitTables
    /\ person_data = [pattern_type |-> "unknown"]
    /\ score_arg = Fl(QInt(0), 0)
    /\ limit = << >>
    /\ fperr = 0
    /\ call = "none"
    /\ result = "None"
    /\ inputs \in [Callers -> CallerRecords]
    /\ \A c \in Callers : RoundingSigns(inputs[c]) = {0}
    /\ pc = [c \in Callers |-> "idle"]
    /\ frame = [c \in Callers |-> "None"]
    /\ returns = [c \in Callers |-> [op \in Operations |-> <<>>]]
    /\ ncalls = 0

\* caller c enters an operation: position at, local variables locals
Enter(c, at, locals) ==
    /\ pc[c] = "idle"
    /\ ncalls < MaxCalls
    /\ ncalls' = ncalls + 1
    /\ pc' = [pc EXCEPT ![c] = at]
    /\ frame' = [frame EXCEPT ![c] = locals]
    /\ UNCHANGED <<tables, person_data, score_arg, limit, fperr, call, result,
                   inputs, returns>>

\* caller c's operation op returns value from position at
Leave(c, at, op, value) ==
    /\ pc[c] = at
    /\ pc' = [pc EXCEPT ![c] = "idle"]
    /\ frame' = [frame EXCEPT ![c] = "None"]
    /\ returns' = [returns EXCEPT ![c][op] = Append(@, value)]
    /\ UNCHANGED <<tables, person_data, score_arg, limit, fperr, call, result,
                   inputs, ncalls>>

\* calculate_risk_score: the six components are computed
ScoreComponents(c) ==
    Enter(c, "score_sum", [components |-> risk_components(inputs[c])])

\* calculate_risk_score: the sum, the clamp, the return
ScoreReturn(c) ==
    Leave(c, "score_sum", "calculate_risk_score", score_result(Components(c)))

\* forecast_crime_timeline: the loop over the crime types
ForecastLoop(c) ==
    Enter(c, "forecast_sort", [forecasts |-> unsorted_forecasts(inputs[c])])

\* forecast_crime_timeline: the sort, the return
ForecastReturn(c) ==
    Leave(c, "forecast_sort", "forecast_crime_timeline", SortByDays(Forecasts(c)))

\* quick_risk_assessment: the score and its level
QuickScore(c) ==
    Enter(c, "quick_forecast", [scored |-> calculate_risk_score(inputs[c])])

\* quick_risk_assessment: the forecast
QuickForecast(c) ==
    /\ pc[c] = "quick_forecast"
    /\ pc' = [pc EXCEPT ![c] = "quick_return"]
    /\ frame' = [frame EXCEPT ![c] =
                    [scored    |-> frame[c].scored,
                     forecasts |-> forecast_crime_timeline(inputs[c])]]
    /\ UNCHANGED <<tables, person_data, score_arg, limit, fperr, call, result,
                   inputs, returns, ncalls>>

\* quick_risk_assessment: the dict is built and returned
QuickReturn(c) ==
    Leave(c, "quick_return", "quick_risk_assessment",
          quick_result(frame[c].scored,
                       get_risk_level(frame[c].scored.risk_score),
                       frame[c].forecasts))

NextCalls ==
    \E c \in Callers :
        \/ ScoreComponents(c)
        \/ ScoreReturn(c)
        \/ ForecastLoop(c)
        \/ ForecastReturn(c)
        \/ QuickScore(c)
        \/ QuickForecast(c)
        \/ QuickReturn(c)

SpecCalls == InitCalls /\ [][NextCalls]_vars

-----------------------------------------------------------------------------
(* Properties *)

ComponentNames == {"pattern", "history", "time", "age", "social", "escalation"}

\* max(0, min(10, x)) on an exact value
ClampQ(x) == IF QLt(x, QInt(0)) THEN QInt(0)
             ELSE IF QLt(QInt(10), x) THEN QInt(10) ELSE x

\* C1: for every record of the validated domain, calculate_risk_score
\* returns a risk_score with 0 <= risk_score <= 10.
C1_ScoreInRange ==
    (call = "calculate_risk_score" /\ Valid(person_data)) =>
        /\ ~FlLt(result.risk_score, 0)
        /\ ~FlGt(result.risk_score, 10)

\* the riskiest record of the domain has been scored
C1_Witness ==
    /\ call = "calculate_risk_score"
    /\ Valid(person_data)
    /\ result.risk_score.q = Q(945, 100)

\* C2: calculate_risk_score returns exactly the six components pattern,
\* history, time, age, social and escalation, each its 0-10 sub-score times
\* its weight (0.25, 0.20, 0.15, 0.10, 0.15, 0.15), and risk_score is
\* max(0, min(10, sum of the components)) within 0.001.
C2_WeightedSum ==
    call = "calculate_risk_score" =>
        LET c == result.components
            pattern_score ==
                QMul(Get(PATTERN_RISKS, Get(person_data, "pattern_type", "unknown"),
                         Q(5, 10)), QInt(10))
        IN  /\ DOMAIN c = ComponentNames
            /\ \A sub \in {pattern_score,
                             calculate_history_score(person_data),
                             calculate_time_score(person_data),
                             calculate_age_score(person_data),
                             calculate_social_score(person_data),
                             calculate_escalation_score(person_data)} :
                  QLe(QInt(0), sub) /\ QLe(sub, QInt(10))
            /\ c.pattern    = QMul(pattern_score, Q(25, 100))
            /\ c.history    = QMul(calculate_history_score(person_data), Q(20, 100))
            /\ c.time       = QMul(calculate_time_score(person_data), Q(15, 100))
            /\ c.age        = QMul(calculate_age_score(person_data), Q(10, 100))
            /\ c.social     = QMul(calculate_social_score(person_data), Q(15, 100))
            /\ c.escalation = QMul(calculate_escalation_score(person_data), Q(15, 100))
            /\ QClose(result.risk_score.q,
                      ClampQ(QAdd(c.pattern, QAdd(c.history, QAdd(c.time,
                             QAdd(c.age, QAdd(c.social, c.escalation)))))))

\* a record with a non-integer history score has been scored
C2_Witness ==
    /\ call = "calculate_risk_score"
    /\ person_data.total_cases = 5 /\ person_data.criminal_count = 2
    /\ result.components.history = Q(96, 100)

\* C3: every forecast of forecast_crime_timeline has 30 <= days <= 365 and
\* 5 <= probability <= 95.
C3_ForecastRanges ==
    call = "forecast_crime_timeline" =>
        \A i \in 1..Len(result) :
            /\ 30 <= result[i].v.days /\ result[i].v.days <= 365
            /\ QLe(QInt(5), result[i].v.probability)
            /\ QLe(result[i].v.probability, QInt(95))

\* a forecast whose raw probability lies below 5 has been clamped to 5
C3_Witness ==
    /\ call = "forecast_crime_timeline"
    /\ \E i \in 1..Len(result) : result[i].v.probability = QInt(5)

\* C4: the mapping forecast_crime_timeline returns has exactly the crime-type
\* keys of CRIME_TIME_WINDOWS (eight, none missing, none extra), and its
\* iteration order is non-decreasing in days.
C4_KeysAndOrder ==
    call = "forecast_crime_timeline" =>
        /\ Len(result) = 8
        /\ {result[i].k : i \in 1..Len(result)} = KeySet(CRIME_TIME_WINDOWS)
        /\ Cardinality(KeySet(CRIME_TIME_WINDOWS)) = 8
        /\ \A i \in 1..Len(result) : result[i].v.crime_type = result[i].k
        /\ \A i, j \in 1..Len(result) :
              i < j => result[i].v.days <= result[j].v.days

\* the sort has moved an entry: the order differs from the table's
C4_Witness ==
    /\ call = "forecast_crime_timeline"
    /\ Keys(result) # Keys(CRIME_TIME_WINDOWS)

\* C5: the original (utils.risk_calculator) and the backend port return
\* identical results for every record: score, components, level,
\* recommendation, and every forecast in the same order.
C5_CopiesAgree ==
    /\ call = "U_calculate_risk_score" => result = calculate_risk_score(person_data)
    /\ call = "U_forecast_crime_timeline" => result = forecast_crime_timeline(person_data)
    /\ call = "U_quick_risk_assessment" => result = quick_risk_assessment(person_data)

\* the original has forecast a record whose entries the sort reorders
C5_Witness ==
    /\ call = "U_forecast_crime_timeline"
    /\ Keys(result) # Keys(U_base_windows)

\* the example record of the comparison test
ExampleRecord ==
    [pattern_type |-> "mixed_unstable", total_cases |-> 5, criminal_count |-> 2,
     admin_count |-> 3, days_since_last |-> 60, current_age |-> 28,
     age_at_first_violation |-> 21, has_property |-> 0, has_job |-> 1,
     has_family |-> 0, substance_abuse |-> 0, has_escalation |-> 0,
     admin_to_criminal |-> 1, recidivism_rate |-> Q(15, 10)]

\* C6: the example record yields risk_score 5.760 (within 0.001) and the
\* level High, from the core and from POST /api/risks/calculate.
C6_Example ==
    person_data = ExampleRecord =>
        /\ call = "calculate_risk_score" =>
              /\ QClose(result.risk_score.q, Q(5760, 1000))
              /\ get_risk_level(result.risk_score)[1] = "YELLOW Vysokiy"
        /\ call = "quick_risk_assessment" =>
              /\ QClose(result.risk_score.q, Q(5760, 1000))
              /\ result.risk_level = "YELLOW Vysokiy"
        /\ call = "calculate_risk" =>
              /\ result.status_code = 200
              /\ QClose(result.risk_score.q, Q(5760, 1000))
              /\ result.risk_level = "YELLOW Vysokiy"

\* the endpoint has answered the example request
C6_Witness ==
    /\ person_data = ExampleRecord
    /\ call = "calculate_risk"
    /\ result.status_code = 200

\* the value of a float is at least k
ScoreAtLeast(s, k) == s.q.n > k * s.q.d \/ (s.q.n = k * s.q.d /\ s.e >= 0)

\* C7: get_risk_level maps every score to one band, lower bound inclusive:
\* >= 7 Critical, [5, 7) High, [3, 5) Medium, < 3 Low, each with its
\* recommendation; 7.0 is Critical and 6.999 is High.
C7_Bands ==
    call = "get_risk_level" =>
        /\ result = IF ScoreAtLeast(score_arg, 7)
                    THEN <<"RED Kriticheskiy", "Trebuet nemedlennogo vmeshatelstva">>
                    ELSE IF ScoreAtLeast(score_arg, 5)
                    THEN <<"YELLOW Vysokiy", "Usilennyy kontrol i monitoring">>
                    ELSE IF ScoreAtLeast(score_arg, 3)
                    THEN <<"ORANGE Sredniy", "Standartnyy kontrol">>
                    ELSE <<"GREEN Nizkiy", "Minimalnyy kontrol">>
        /\ score_arg = Fl(QInt(7), 0) => result[1] = "RED Kriticheskiy"
        /\ score_arg = Fl(Q(6999, 1000), 0) => result[1] = "YELLOW Vysokiy"

\* get_risk_level has been called with exactly 7.0
C7_Witness ==
    /\ call = "get_risk_level"
    /\ score_arg = Fl(QInt(7), 0)
    /\ result[1] = "RED Kriticheskiy"

\* C8: every forecast's confidence interval contains its day count strictly:
\* ci_lower < days < ci_upper.
C8_IntervalContainsDays ==
    call = "forecast_crime_timeline" =>
        \A i \in 1..Len(result) :
            /\ result[i].v.ci_lower < result[i].v.days
            /\ result[i].v.days < result[i].v.ci_upper

\* a forecast whose interval bound the float product truncates below the
\* decimal product (45 * 1.4 gives 62)
C8_Witness ==
    /\ call = "forecast_crime_timeline"
    /\ \E i \in 1..Len(result) :
          result[i].v.days = 45 /\ result[i].v.ci_upper = 62

\* the defaults the specification gives for missing fields
WithDefaults(d) ==
    LET age == IF Has(d, "current_age") THEN d.current_age ELSE 35
    IN  [f \in Fields |->
            IF Has(d, f) THEN d[f]
            ELSE IF f = "pattern_type" THEN "unknown"
            ELSE IF f = "days_since_last" THEN 365
            ELSE IF f = "recidivism_rate" THEN QInt(0)
            ELSE IF f \in {"current_age", "age_at_first_violation"} THEN age
            ELSE 0]

IsRational(x) == DOMAIN x = {"n", "d"} /\ x.n \in Int /\ x.d \in Nat \ {0}

\* C9: on a record with any fields missing, calculate_risk_score and
\* forecast_crime_timeline return numeric results, the ones they return for
\* the record with each missing field set to its default (unknown pattern
\* with risk 0.5, counts 0, days_since_last 365, recidivism_rate 0,
\* current_age 35, age_at_first_violation = current_age, flags 0).
C9_MissingIsDefault ==
    /\ call = "calculate_risk_score" =>
          /\ IsRational(result.risk_score.q)
          /\ result = calculate_risk_score(WithDefaults(person_data))
          /\ ~Has(person_data, "pattern_type") =>
                result.components.pattern = QMul(QMul(Q(5, 10), QInt(10)), Q(25, 100))
    /\ call = "forecast_crime_timeline" =>
          /\ \A i \in 1..Len(result) :
                result[i].v.days \in Nat /\ IsRational(result[i].v.probability)
          /\ result = forecast_crime_timeline(WithDefaults(person_data))

\* a record lacking age_at_first_violation and another field has been scored
C9_Witness ==
    /\ call = "calculate_risk_score"
    /\ ~Has(person_data, "age_at_first_violation")
    /\ Cardinality(DOMAIN person_data) = Cardinality(Fields) - 2

\* C10: quick_risk_assessment returns the risk_score and components of
\* calculate_risk_score, the level and recommendation of get_risk_level on
\* that score, and as most_likely_crime the first entry of the sorted
\* forecast, whose days is the smallest of all crime types.
C10_QuickAssessment ==
    call = "quick_risk_assessment" =>
        LET scored    == calculate_risk_score(person_data)
            forecasts == forecast_crime_timeline(person_data)
        IN  /\ result.risk_score = scored.risk_score
            /\ result.components = scored.components
            /\ <<result.risk_level, result.recommendation>> =
                  get_risk_level(scored.risk_score)
            /\ result.most_likely_crime = forecasts[1].v
            /\ \A i \in 1..Len(forecasts) :
                  result.most_likely_crime.days <= forecasts[i].v.days

\* a quick assessment whose forecasts do not all share one day count
C10_Witness ==
    /\ call = "quick_risk_assessment"
    /\ \E i \in 1..8 :
          forecast_crime_timeline(person_data)[i].v.days > result.most_likely_crime.days

\* what operation op returns on record data when it runs alone
Alone(op, data) ==
    CASE op = "calculate_risk_score"    -> calculate_risk_score(data)
      [] op = "forecast_crime_timeline" -> forecast_crime_timeline(data)
      [] op = "quick_risk_assessment"   -> quick_risk_assessment(data)

\* C11: two calls of calculate_risk_score, forecast_crime_timeline or
\* quick_risk_assessment with the same input record return identical
\* output, whatever calls ran before or in between.
C11_Idempotent ==
    \A c, d \in DOMAIN returns : \A op \in Operations :
        inputs[c] = inputs[d] =>
            \A i \in 1..Len(returns[c][op]), j \in 1..Len(returns[d][op]) :
                returns[c][op][i] = returns[d][op][j]

\* a caller has called one operation twice, and the other caller, whose
\* record differs, has returned from a call as well
C11_Witness ==
    \E c, d \in DOMAIN returns : \E op, other \in Operations :
        /\ inputs[c] # inputs[d]
        /\ Len(returns[c][op]) = 2
        /\ Len(returns[d][other]) = 1

\* C12: calls interleaved in any order across concurrent callers leave
\* RISK_WEIGHTS, PATTERN_RISKS, PREVENTION_RATES, CRIME_TIME_WINDOWS and
\* every caller's input record unchanged, and each call returns the result
\* it would return if it ran alone.
C12_Isolation ==
    /\ [](\A c \in DOMAIN returns : \A op \in Operations :
             \A i \in 1..Len(returns[c][op]) :
                 returns[c][op][i] = Alone(op, inputs[c]))
    /\ [][tables' = tables /\ inputs' = inputs]_vars

\* one caller has returned from two calls while the other, whose record
\* differs, is in the middle of a quick assessment
C12_Witness ==
    \E c, d \in DOMAIN returns :
        /\ inputs[c] # inputs[d]
        /\ pc[d] = "quick_return"
        /\ Len(returns[c]["calculate_risk_score"]) = 1
        /\ Len(returns[c]["forecast_crime_timeline"]) = 1

-----------------------------------------------------------------------------
(* Loading the constants.  Importing app.core.constants runs               *)
(* backend/app/core/__init__.py, which runs the body of constants.py and    *)
(* then validate_constants of backend/app/core/validation.py.               *)

\* a table of constants.py edited: entry i left out (0: the table as it is)
Without(od, i) == SubSeq(od, 1, i - 1) \o SubSeq(od, i + 1, Len(od))

\* the largest change of one weight, in units of 0.0005
MaxDeviation == 4

\* RISK_WEIGHTS of constants.py edited: one weight changed
WeightEdits ==
    {[RISK_WEIGHTS_0 EXCEPT ![w] = QAdd(@, Q(k, 2000))] :
        w \in DOMAIN RISK_WEIGHTS_0, k \in -MaxDeviation..MaxDeviation}

\* sum(RISK_WEIGHTS.values())
SumWeights(w) ==
    QAdd(QAdd(QAdd(QAdd(QAdd(w.pattern_weight, w.history_weight), w.time_weight),
                   w.age_weight), w.social_weight), w.escalation_weight)

\* abs(sum(RISK_WEIGHTS.values()) - 1.0), a float
weights_deviation == Fl(QAbs(QSub(SumWeights(RISK_WEIGHTS), QInt(1))), fperr)

\* deviation < 0.001, deviation > 0.001
DeviationBelow(x) == QLt(x.q, Q(1, 1000)) \/ (x.q = Q(1, 1000) /\ x.e < 0)

DeviationAbove(x) == QLt(Q(1, 1000), x.q) \/ (x.q = Q(1, 1000) /\ x.e > 0)

\* the body of constants.py: the exception it raises, or None
constants_module ==
    LET Body(deviation) ==
            IF ~DeviationBelow(deviation) THEN "AssertionError"
            ELSE IF "Ubiystvo" \notin KeySet(CRIME_TIME_WINDOWS) THEN "KeyError"
            ELSE IF \/ OGet(CRIME_TIME_WINDOWS, "Ubiystvo", 0) # 143
                    \/ DeviationAbove(deviation)
            THEN "ValueError"
            ELSE "None"
    IN  Body(weights_deviation)

\* _validate_time_windows(): some expected window differs
validate_time_windows ==
    \E i \in 1..Len(CRIME_TIME_WINDOWS_0) :
        OGet(CRIME_TIME_WINDOWS, CRIME_TIME_WINDOWS_0[i].k, -1) # CRIME_TIME_WINDOWS_0[i].v

\* _validate_prevention_rates(): some expected rate differs (100.7 passes for
\* Vymogatelstvo)
validate_prevention_rates ==
    \E i \in 1..Len(PREVENTION_RATES_0) :
        LET Differs(crime_type, expected_rate, actual_rate) ==
                /\ actual_rate # expected_rate
                /\ ~(crime_type = "Vymogatelstvo" /\ actual_rate = Q(1007, 10))
        IN  Differs(PREVENTION_RATES_0[i].k, PREVENTION_RATES_0[i].v,
                    OGet(PREVENTION_RATES, PREVENTION_RATES_0[i].k, QInt(-1)))

\* _validate_risk_weights(): some weight differs or the sum is off
validate_risk_weights ==
    \/ \E w \in DOMAIN RISK_WEIGHTS_0 : Get(RISK_WEIGHTS, w, QInt(-1)) # RISK_WEIGHTS_0[w]
    \/ DeviationAbove(weights_deviation)

\* _validate_pattern_risks(): some pattern risk differs
validate_pattern_risks ==
    \E p \in DOMAIN PATTERN_RISKS_0 : Get(PATTERN_RISKS, p, QInt(-1)) # PATTERN_RISKS_0[p]

\* _validate_data_integrity(): a crime type has a window and no rate, or a
\* rate and no window
validate_data_integrity ==
    \/ KeySet(PREVENTION_RATES) \ KeySet(CRIME_TIME_WINDOWS) # {}
    \/ KeySet(CRIME_TIME_WINDOWS) \ KeySet(PREVENTION_RATES) # {}

\* validate_constants_integrity() found errors: validate_constants() raises
\* ValueError
validate_constants ==
    \/ validate_time_windows
    \/ validate_prevention_rates
    \/ validate_risk_weights
    \/ validate_pattern_risks
    \/ validate_data_integrity

\* import app.core.constants: an exception of constants.py ends the import;
\* the ValueError of validate_constants() is caught and printed as a warning
import_constants ==
    LET Imported(error) ==
            [error |-> error, warning |-> error = "None" /\ validate_constants]
    IN  Imported(constants_module)

\* the start-up checks of the application on the loaded tables
lifespan ==
    IF \/ ~DeviationBelow(weights_deviation)
       \/ Len(CRIME_TIME_WINDOWS) # Cardinality(KeySet(CRIME_TIME_WINDOWS_0))
    THEN "AssertionError"
    ELSE "None"

\* the rounding error of the weight sum shows only where the exact deviation
\* meets 0.001
DeviationSigns(w) ==
    IF QAbs(QSub(SumWeights(w), QInt(1))) = Q(1, 1000) THEN {-1, 0, 1} ELSE {0}

\* a process starts with the tables of constants.py, possibly edited
InitLoad ==
    /\ RISK_WEIGHTS \in WeightEdits
    /\ PATTERN_RISKS = PATTERN_RISKS_0
    /\ \E i \in 0..Len(PREVENTION_RATES_0) :
           PREVENTION_RATES = Without(PREVENTION_RATES_0, i)
    /\ \E i \in 0..Len(CRIME_TIME_WINDOWS_0) :
           CRIME_TIME_WINDOWS = Without(CRIME_TIME_WINDOWS_0, i)
    /\ person_data = [pattern_type |-> "unknown"]
    /\ score_arg = Fl(QInt(0), 0)
    /\ limit = << >>
    /\ fperr \in DeviationSigns(RISK_WEIGHTS)
    /\ call = "none"
    /\ result = "None"
    /\ NoCallers

ImportConstants == Returns("import_constants", import_constants)

Lifespan ==
    /\ call = "import_constants"
    /\ result.error = "None"
    /\ call' = "lifespan"
    /\ result' = [result EXCEPT !.error = lifespan]
    /\ UNCHANGED <<tables, person_data, score_arg, limit, fperr, callers>>

NextLoad ==
    \/ ImportConstants
    \/ Lifespan

SpecLoad == InitLoad /\ [][NextLoad]_vars

\* C13: the tables of constants.py satisfy the two startup invariants
\* (RISK_WEIGHTS has six entries whose sum is within 0.001 of 1.0;
\* CRIME_TIME_WINDOWS and PREVENTION_RATES hold the same eight crime types),
\* and loading the constants fails with an error when the weight sum
\* deviates by more than 0.001 or when a crime type is in only one of the
\* two tables.
C13_StartupInvariants ==
    /\ Cardinality(DOMAIN RISK_WEIGHTS_0) = 6
    /\ QLe(QAbs(QSub(SumWeights(RISK_WEIGHTS_0), QInt(1))), Q(1, 1000))
    /\ KeySet(CRIME_TIME_WINDOWS_0) = KeySet(PREVENTION_RATES_0)
    /\ Cardinality(KeySet(CRIME_TIME_WINDOWS_0)) = 8
    /\ (/\ call = "import_constants"
        /\ \/ QLt(Q(1, 1000), weights_deviation.q)
           \/ KeySet(CRIME_TIME_WINDOWS) # KeySet(PREVENTION_RATES))
       => result.error # "None"

\* C13: the part the import enforces: the tables of constants.py satisfy
\* both invariants, and the import fails whenever the weight sum deviates by
\* more than 0.001 and succeeds on the tables as they are.
C13_WeightSumEnforced ==
    /\ Cardinality(DOMAIN RISK_WEIGHTS_0) = 6
    /\ SumWeights(RISK_WEIGHTS_0) = QInt(1)
    /\ Keys(CRIME_TIME_WINDOWS_0) = Keys(PREVENTION_RATES_0)
    /\ Len(CRIME_TIME_WINDOWS_0) = 8
    /\ call = "import_constants" =>
           /\ QLt(Q(1, 1000), weights_deviation.q) => result.error = "AssertionError"
           /\ (tables = <<RISK_WEIGHTS_0, PATTERN_RISKS_0, PREVENTION_RATES_0,
                          CRIME_TIME_WINDOWS_0>>)
              => result = [error |-> "None", warning |-> FALSE]

\* a crime type has a window and no rate, and the import went through with a
\* warning
C13_Witness ==
    /\ call = "import_constants"
    /\ KeySet(CRIME_TIME_WINDOWS) \ KeySet(PREVENTION_RATES) # {}
    /\ SumWeights(RISK_WEIGHTS) = QInt(1)
    /\ result = [error |-> "None", warning |-> TRUE]

-----------------------------------------------------------------------------
(* POST /api/risks/calculate step by step: the body is parsed as a          *)
(* RiskCalculationRequest, the handler validates the dict and calls the     *)
(* scoring core, and the result is formatted as the response                *)

\* a body with the fields of p set to the values of p
Patched(r, p) == [f \in DOMAIN r |-> IF f \in DOMAIN p THEN p[f] ELSE r[f]]

\* a body without the fields of M
Omitting(r, M) == [f \in DOMAIN r \ M |-> r[f]]

\* how far a count or an age is drawn beyond its limit
MaxExcess == 2

\* the changes of a body r: none, an unknown pattern, an age at and beyond
\* each end of 14..100, counts above total_cases, a first violation after
\* the current age or before 14, a negative total
Patches(r) ==
    {<< >>, [pattern_type |-> "invalid_pattern"], [total_cases |-> -1],
     [age_at_first_violation |-> 13], [current_age |-> 200]}
    \cup {[current_age |-> a] : a \in {14 - k : k \in 0..MaxExcess}
                                      \cup {100 + k : k \in 0..MaxExcess}}
    \cup {[criminal_count |-> r.total_cases + k] : k \in 0..MaxExcess}
    \cup {[admin_count |-> r.total_cases + k] : k \in 0..MaxExcess}
    \cup {[age_at_first_violation |-> r.current_age + k] : k \in 0..MaxExcess}

\* the optional fields a body leaves out
Omissions == {{}, {"age_at_first_violation"}, {"criminal_count", "admin_count"}}

RequestBodies ==
    UNION {{Omitting(Patched(r, p), M) : p \in Patches(r), M \in Omissions} :
              r \in BaseRecords}

\* RiskCalculationResponse(...) of the handler
calculation_response(r) ==
    IF FlLt(r.risk_score, 0) \/ FlGt(r.risk_score, 10)
    THEN [status_code |-> 500]
    ELSE [status_code    |-> 200,
          risk_score     |-> r.risk_score,
          risk_level     |-> r.risk_level,
          risk_category  |-> RiskCategory(r.risk_level),
          recommendation |-> r.recommendation,
          components     |-> r.risk_components,
          person_data    |-> r.person_data]

InitApi ==
    /\ InitTables
    /\ person_data \in RequestBodies
    /\ score_arg = Fl(QInt(0), 0)
    /\ limit = << >>
    /\ fperr = 0
    /\ call = "none"
    /\ result = "None"
    /\ NoCallers

\* the body is parsed and the handler validates request.to_calculator_dict()
ValidateRequest ==
    /\ call = "none"
    /\ LET Validated(person_dict) ==
               IF validate_person_data(person_dict)
               THEN /\ call' = "validate_person_data"
                    /\ result' = person_dict
               ELSE /\ call' = "calculate_risk"
                    /\ result' = [status_code |-> 422]
       IN  IF RequestAccepted(person_data)
           THEN Validated(to_calculator_dict(person_data))
           ELSE /\ call' = "calculate_risk"
                /\ result' = [status_code |-> 422]
    /\ UNCHANGED <<tables, person_data, score_arg, limit, fperr, callers>>

\* the handler calls the scoring core on the validated dict
ScoreRequest ==
    /\ call = "validate_person_data"
    /\ call' = "calculate_risk_for_person_dict"
    /\ result' = calculate_risk_for_person_dict(result)
    /\ UNCHANGED <<tables, person_data, score_arg, limit, fperr, callers>>

\* the handler formats the result of the core
RespondRequest ==
    /\ call = "calculate_risk_for_person_dict"
    /\ call' = "calculate_risk"
    /\ result' = calculation_response(result)
    /\ UNCHANGED <<tables, person_data, score_arg, limit, fperr, callers>>

NextApi ==
    \/ ValidateRequest
    \/ ScoreRequest
    \/ RespondRequest

SpecApi == InitApi /\ [][NextApi]_vars

\* the five violations the claim lists
ViolatesRequest(body) ==
    \/ body.pattern_type \notin PatternType
    \/ body.current_age < 14 \/ body.current_age > 100
    \/ Has(body, "criminal_count") /\ body.criminal_count > body.total_cases
    \/ Has(body, "admin_count") /\ body.admin_count > body.total_cases
    \/ Has(body, "age_at_first_violation")
       /\ body.age_at_first_violation > body.current_age

\* the field constraints and validators of the specification
MeetsConstraints(body) ==
    /\ ~ViolatesRequest(body)
    /\ body.total_cases >= 0
    /\ Has(body, "criminal_count") => body.criminal_count >= 0
    /\ Has(body, "admin_count") => body.admin_count >= 0
    /\ body.days_since_last >= 0
    /\ QLe(QInt(0), body.recidivism_rate)
    /\ Has(body, "age_at_first_violation") => body.age_at_first_violation >= 14
    /\ \A f \in {"has_property", "has_job", "has_family", "substance_abuse",
                 "has_escalation"} : body[f] \in {0, 1}
    /\ body.admin_to_criminal >= 0

\* C14: a RiskCalculationRequest is rejected with a validation error (422)
\* and the scoring core is never invoked when pattern_type is not one of the
\* six enum values, current_age is outside [14, 100], criminal_count or
\* admin_count exceeds total_cases, or age_at_first_violation exceeds
\* current_age; a request violating no field constraint is accepted (the
\* core is invoked on it) and scored (200 with the score of the core).
C14_Validation ==
    /\ ViolatesRequest(person_data) =>
          /\ call \in {"none", "calculate_risk"}
          /\ call = "calculate_risk" => result = [status_code |-> 422]
    /\ MeetsConstraints(person_data) =>
          /\ call = "validate_person_data" => result = to_calculator_dict(person_data)
          /\ call = "calculate_risk" =>
                /\ result.status_code = 200
                /\ result.risk_score =
                      calculate_risk_score(to_calculator_dict(person_data)).risk_score
                /\ result = calculate_risk(person_data)

\* a request whose only fault is criminal_count = total_cases + 1 was
\* answered with 422
C14_Witness ==
    /\ call = "calculate_risk"
    /\ result = [status_code |-> 422]
    /\ Has(person_data, "criminal_count")
    /\ person_data.criminal_count = person_data.total_cases + 1
    /\ RequestAccepted_fields_only(person_data)

-----------------------------------------------------------------------------
(* backend/app/api/endpoints/forecasts.py : POST /api/forecasts/timeline *)

\* limit: int = Query(8, ge=1, le=20)
LimitAccepted(query) == query = << >> \/ (query[1] >= 1 /\ query[1] <= 20)

LimitOf(query) == IF query = << >> THEN 8 ELSE query[1]

\* CrimeForecastItem with probability checked as a fraction of one
CrimeForecastItem_fraction(forecast) ==
    /\ forecast.days >= 30 /\ forecast.days <= 365
    /\ QLe(Q(5, 100), forecast.probability) /\ QLe(forecast.probability, Q(95, 100))

\* CrimeForecastItem(...): the range checks of the schema pass
CrimeForecastItem(forecast) ==
    /\ forecast.days >= 30 /\ forecast.days <= 365
    /\ QLe(QInt(5), forecast.probability) /\ QLe(forecast.probability, QInt(95))

\* the loop over forecasts_raw.items(): a forecast the schema refuses is
\* skipped
RECURSIVE forecast_items(_)
forecast_items(forecasts_raw) ==
    IF forecasts_raw = << >> THEN << >>
    ELSE IF CrimeForecastItem(Head(forecasts_raw).v)
    THEN <<Head(forecasts_raw)>> \o forecast_items(Tail(forecasts_raw))
    ELSE forecast_items(Tail(forecasts_raw))

\* forecast_items.sort(key=lambda x: x.days); forecast_items[:limit]
limited_forecasts(items, n) ==
    LET Slice(sorted) ==
            [i \in 1..(IF n < Len(sorted) THEN n ELSE Len(sorted)) |-> sorted[i].v]
    IN  Slice(SortByDays(items))

get_crime_timeline(body, query) ==
    LET Response(forecasts) ==
            [status_code     |-> 200,
             forecasts       |-> forecasts,
             total_forecasts |-> Len(forecasts)]
        Handle(person_dict) ==
            IF ~validate_person_data(person_dict) THEN [status_code |-> 422]
            ELSE Response(limited_forecasts(
                     forecast_items(forecast_crime_timeline(person_dict)),
                     LimitOf(query)))
    IN  IF ~RequestAccepted(body) \/ ~LimitAccepted(query) THEN [status_code |-> 422]
        ELSE Handle(to_calculator_dict(body))

\* the limits drawn: absent, each end of 1..20 and beyond, below and above
\* the number of crime types
Queries == {<< >>, <<0>>, <<1>>, <<3>>, <<7>>, <<8>>, <<9>>, <<20>>, <<21>>}

InitTimeline ==
    /\ InitTables
    /\ person_data \in RequestBodies
    /\ score_arg = Fl(QInt(0), 0)
    /\ limit \in Queries
    /\ fperr = 0
    /\ call = "none"
    /\ result = "None"
    /\ NoCallers

GetCrimeTimeline == Returns("get_crime_timeline", get_crime_timeline(person_data, limit))

NextTimeline == GetCrimeTimeline

SpecTimeline == InitTimeline /\ [][NextTimeline]_vars

\* the days of a response are in ascending order
AscendingDays(forecasts) ==
    \A i \in 1..Len(forecasts) - 1 : forecasts[i].days <= forecasts[i + 1].days

\* C15, as stated: for every accepted request POST /api/forecasts/timeline
\* returns one item per crime type of CRIME_TIME_WINDOWS (none dropped by the
\* range checks of CrimeForecastItem), ordered by days ascending, with
\* total_forecasts equal to the number of items returned.
C15_FullTimeline ==
    (call = "get_crime_timeline" /\ result.status_code = 200) =>
        /\ Len(result.forecasts) = Len(CRIME_TIME_WINDOWS)
        /\ {result.forecasts[i].crime_type : i \in 1..Len(result.forecasts)}
               = KeySet(CRIME_TIME_WINDOWS)
        /\ AscendingDays(result.forecasts)
        /\ result.total_forecasts = Len(result.forecasts)

\* C15, amended: a request is accepted when its body is and its limit, if
\* given, lies in 1..20.  The response then holds the first min(limit, 8)
\* forecasts of forecast_crime_timeline in its order (limit 8 when absent),
\* days ascending, no forecast dropped by the range checks, total_forecasts
\* equal to the number of items returned; without a limit, or with one of at
\* least 8, that is one item per crime type of CRIME_TIME_WINDOWS.
C15_LimitedTimeline ==
    call = "get_crime_timeline" =>
        LET Expected(full, n) ==
                /\ Len(full) = Len(CRIME_TIME_WINDOWS)
                /\ Len(result.forecasts) = (IF n < Len(full) THEN n ELSE Len(full))
                /\ \A i \in 1..Len(result.forecasts) : result.forecasts[i] = full[i].v
                /\ AscendingDays(result.forecasts)
                /\ result.total_forecasts = Len(result.forecasts)
                /\ n >= Len(full) =>
                      {result.forecasts[i].crime_type : i \in 1..Len(result.forecasts)}
                          = KeySet(CRIME_TIME_WINDOWS)
        IN  IF RequestAccepted(person_data) /\ LimitAccepted(limit)
            THEN /\ result.status_code = 200
                 /\ Expected(forecast_crime_timeline(to_calculator_dict(person_data)),
                             LimitOf(limit))
            ELSE result = [status_code |-> 422]

\* an accepted request with limit 3 was answered with three forecasts
C15_Witness ==
    /\ call = "get_crime_timeline"
    /\ limit = <<3>>
    /\ result.status_code = 200
    /\ result.total_forecasts = 3

-----------------------------------------------------------------------------
(* The five sub-scores of RiskCalculator, each called on a dict that holds  *)
(* the fields it reads (any other field is read by .get with its default)   *)

\* total_cases 0..MaxCases with criminal_count up to one more than MaxCases:
\* no case at all, criminal_count above total_cases, each step
HistoryInputs ==
    {[total_cases |-> t, criminal_count |-> c] :
        t \in 0..MaxCases, c \in 0..MaxCases + 1}

\* days_since_last at and next to each step, recidivism_rate at and next to 2
TimeInputs ==
    {[days_since_last |-> d, recidivism_rate |-> r] :
        d \in {0, 29, 30, 89, 90, 179, 180, 364, 365, 366},
        r \in {QInt(0), Q(19, 10), QInt(2), Q(21, 10), Q(25, 10)}}

\* the oldest current_age drawn below 100
MaxAge == 47

\* the latest age_at_first_violation drawn
MaxDebut == 26

AgeInputs ==
    {[current_age |-> a, age_at_first_violation |-> f] :
        a \in 14..MaxAge \cup {100}, f \in 14..MaxDebut}
    \cup {[current_age |-> a] : a \in 14..MaxAge}

SocialInputs ==
    {[has_property |-> hp, has_job |-> hj, has_family |-> hf, substance_abuse |-> sa] :
        hp \in {0, 1}, hj \in {0, 1}, hf \in {0, 1}, sa \in {0, 1}}

EscalationInputs ==
    {[has_escalation |-> he, admin_to_criminal |-> n, admin_count |-> ac] :
        he \in {0, 1}, n \in 0..MaxTransitions, ac \in {0, 5, 6, MaxCases}}

\* the (total_cases, criminal_count, admin_count) rows of
\* test_history_score_calculation
HistoryTests ==
    {[total_cases |-> row[1], criminal_count |-> row[2], admin_count |-> row[3]] :
        row \in {<<0, 0, 0>>, <<1, 0, 1>>, <<3, 1, 2>>, <<7, 3, 4>>, <<15, 5, 10>>}}

\* the (current_age, age_at_first_violation) rows of test_age_score_calculation
AgeTests ==
    {[current_age |-> row[1], age_at_first_violation |-> row[2]] :
        row \in {<<22, 19>>, <<22, 16>>, <<30, 20>>, <<40, 25>>, <<50, 30>>}}

\* each pattern, and one that is not in the table
PatternInputs == {[pattern_type |-> p] : p \in PatternType \cup {"invalid_pattern"}}

ScoreInputs ==
    HistoryInputs \cup TimeInputs \cup AgeInputs \cup SocialInputs
    \cup EscalationInputs \cup PatternInputs \cup HistoryTests \cup AgeTests
    \cup {<< >>}

InitScores ==
    /\ InitTables
    /\ person_data \in ScoreInputs
    /\ score_arg = Fl(QInt(0), 0)
    /\ limit = << >>
    /\ fperr = 0
    /\ call = "none"
    /\ result = "None"
    /\ NoCallers

CalculateHistoryScore ==
    Returns("_calculate_history_score", calculate_history_score(person_data))

CalculateTimeScore ==
    Returns("_calculate_time_score", calculate_time_score(person_data))

CalculateAgeScore ==
    Returns("_calculate_age_score", calculate_age_score(person_data))

CalculateSocialScore ==
    Returns("_calculate_social_score", calculate_social_score(person_data))

CalculateEscalationScore ==
    Returns("_calculate_escalation_score", calculate_escalation_score(person_data))

GetAgeModifier == Returns("_get_age_modifier", get_age_modifier(person_data))

GetPatternModifier ==
    \E crime_type \in KeySet(CRIME_TIME_WINDOWS) :
        Returns("_get_pattern_modifier",
                [crime_type |-> crime_type,
                 modifier   |-> get_pattern_modifier(person_data, crime_type)])

GetSocialModifier == Returns("_get_social_modifier", get_social_modifier(person_data))

NextScores ==
    \/ CalculateHistoryScore
    \/ CalculateTimeScore
    \/ CalculateAgeScore
    \/ CalculateSocialScore
    \/ CalculateEscalationScore
    \/ GetAgeModifier
    \/ GetPatternModifier
    \/ GetSocialModifier

SpecScores == InitScores /\ [][NextScores]_vars

\* the number of the bounds in s that x exceeds
StepsAbove(x, s) == Cardinality({b \in s : x > b})

C17_SocialScore ==
    call = "_calculate_social_score" =>
        LET Flag(name) == Get(person_data, name, 0)
            P(flag) == IF flag = 1 THEN -2 ELSE IF flag = 0 THEN 1 ELSE 0
            Sum == 5 + P(Flag("has_property")) + P(Flag("has_job"))
                     - (IF Flag("has_family") = 1 THEN 1 ELSE 0)
                     + (IF Flag("substance_abuse") = 1 THEN 2 ELSE 0)
            Flags == <<Flag("has_property"), Flag("has_job"), Flag("has_family"),
                       Flag("substance_abuse")>>
        IN  /\ result = QInt(IF Sum < 0 THEN 0 ELSE IF Sum > 10 THEN 10 ELSE Sum)
            /\ Flags = <<1, 1, 1, 0>> => result = QInt(0)
            /\ Flags = <<0, 0, 0, 1>> => result = QInt(9)
            /\ QLe(QInt(0), result) /\ QLe(result, QInt(9))

\* property, job and family without substance abuse: the score is 0
C17_Witness ==
    /\ call = "_calculate_social_score"
    /\ person_data = [has_property |-> 1, has_job |-> 1, has_family |-> 1,
                      substance_abuse |-> 0]
    /\ result = QInt(0)

C19_TimeScore ==
    call = "_calculate_time_score" =>
        LET Step(days) == 10 - 2 * StepsAbove(days, {29, 89, 179, 364})
            Score(days, rate) ==
                /\ QLt(QInt(2), rate) =>
                      result = QInt(IF Step(days) + 2 > 10 THEN 10 ELSE Step(days) + 2)
                /\ ~QLt(QInt(2), rate) => result = QInt(Step(days))
                /\ rate = QInt(2) => result = QInt(Step(days))
        IN  Score(Get(person_data, "days_since_last", 365),
                  Get(person_data, "recidivism_rate", QInt(0)))

\* a rate of exactly 2 after 90 days: the step value 6, nothing added
C19_Witness ==
    /\ call = "_calculate_time_score"
    /\ "days_since_last" \in DOMAIN person_data
    /\ person_data.days_since_last = 90
    /\ person_data.recidivism_rate = QInt(2)
    /\ result = QInt(6)

\* C20: the escalation sub-score is, with has_escalation set, 9 if
\* admin_to_criminal > 2, 7 if admin_to_criminal > 0, else 5; with
\* has_escalation not set it is 4 if admin_count > 5, else 2, and
\* admin_to_criminal is ignored.
C20_EscalationScore ==
    call = "_calculate_escalation_score" =>
        LET Score(has_escalation, admin_to_criminal, admin_count) ==
                /\ has_escalation = 1 =>
                      result = QInt(CASE admin_to_criminal > 2 -> 9
                                      [] admin_to_criminal \in 1..2 -> 7
                                      [] OTHER -> 5)
                /\ has_escalation = 0 =>
                      /\ result = QInt(IF admin_count > 5 THEN 4 ELSE 2)
                      /\ result = calculate_escalation_score(
                             [has_escalation |-> 0, admin_count |-> admin_count])
        IN  Score(Get(person_data, "has_escalation", 0),
                  Get(person_data, "admin_to_criminal", 0),
                  Get(person_data, "admin_count", 0))

\* no escalation flag, three transitions and six administrative cases: 4
C20_Witness ==
    /\ call = "_calculate_escalation_score"
    /\ "has_escalation" \in DOMAIN person_data
    /\ person_data.has_escalation = 0
    /\ person_data.admin_to_criminal = MaxTransitions
    /\ person_data.admin_count = 6
    /\ result = QInt(4)

\* C21: each forecast's probability is clamp(base_rate[crime_type] *
\* (risk_score / 10) * time_modifier * pattern_modifier, 5, 95) with
\* days_ahead = the forecast's days: risk_score the value of
\* calculate_risk_score for the record, time_modifier 0.6 if days_ahead <
\* 0.5 * window, 0.8 if < window, 1.0 if < 1.5 * window, else 0.7,
\* pattern_modifier 1.3 for chronic_criminal with Krazha or Grabezh, 1.2 for
\* escalating with Grabezh or Razboy, 1.1 for mixed_unstable, else 1.0.
C21_Probability ==
    call = "forecast_crime_timeline" =>
        LET Tenths(days_ahead, window) ==
                CASE 10 * days_ahead < 5 * window  -> 6
                  [] 10 * days_ahead \in (5 * window)..(10 * window - 1)  -> 8
                  [] 10 * days_ahead \in (10 * window)..(15 * window - 1) -> 10
                  [] OTHER -> 7
            Pattern(pattern, crime_type) ==
                CASE pattern = "chronic_criminal" /\ crime_type \in {"Krazha", "Grabezh"} -> 13
                  [] pattern = "escalating" /\ crime_type \in {"Grabezh", "Razboy"} -> 12
                  [] pattern = "mixed_unstable" -> 11
                  [] OTHER -> 10
            Raw(forecast, risk_score) ==
                QMul(QMul(OGet(PREVENTION_RATES_0, forecast.crime_type, QInt(50)),
                          QMul(risk_score, Q(1, 10))),
                     Q(Tenths(forecast.days,
                              OGet(CRIME_TIME_WINDOWS_0, forecast.crime_type, 140))
                       * Pattern(person_data.pattern_type, forecast.crime_type), 100))
            Clamp(p) == IF QLt(p, QInt(5)) THEN QInt(5)
                        ELSE IF QLt(QInt(95), p) THEN QInt(95) ELSE p
            Holds(risk_score) ==
                \A i \in 1..Len(result) :
                    result[i].v.probability = Clamp(Raw(result[i].v, risk_score))
        IN  Holds(calculate_risk_score(person_data).risk_score.q)

\* an escalating record whose Grabezh forecast (pattern modifier 1.2) has a
\* probability away from both clamps
C21_Witness ==
    /\ call = "forecast_crime_timeline"
    /\ person_data.pattern_type = "escalating"
    /\ \E i \in 1..Len(result) :
          /\ result[i].k = "Grabezh"
          /\ QLt(QInt(5), result[i].v.probability)
          /\ QLt(result[i].v.probability, QInt(95))

\* B * age_modifier * pattern_modifier * social_modifier of a forecast
DayProduct(forecast) ==
    QMul(QMul(QMul(QInt(OGet(CRIME_TIME_WINDOWS, forecast.crime_type, 0)),
                   get_age_modifier(person_data)),
              get_pattern_modifier(person_data, forecast.crime_type)),
         get_social_modifier(person_data))

\* max(30, min(365, k))
ClampDays(k) == IF k < 30 THEN 30 ELSE IF k > 365 THEN 365 ELSE k

\* C22, as stated: every forecast's days equals clamp(round(B * age_modifier
\* * pattern_modifier * social_modifier), 30, 365), the product rounded to
\* the nearest integer before clamping.
C22_RoundedDays ==
    call = "forecast_crime_timeline" =>
        \A i \in 1..Len(result) :
            result[i].v.days = ClampDays(RoundHalfEven(DayProduct(result[i].v)))

\* C22, amended: every forecast's days equals clamp(int(B * age_modifier *
\* pattern_modifier * social_modifier), 30, 365): the product is truncated to
\* the integer k with k <= product < k + 1 before clamping, never rounded up.
C22_TruncatedDays ==
    call = "forecast_crime_timeline" =>
        \A i \in 1..Len(result) :
            LET Truncated(product) ==
                    \E k \in 0..(2 * OGet(CRIME_TIME_WINDOWS, result[i].k, 0)) :
                        /\ QLe(QInt(k), product) /\ QLt(product, QInt(k + 1))
                        /\ result[i].v.days = ClampDays(k)
            IN  Truncated(DayProduct(result[i].v))

\* a forecast inside 30..365 whose product has a fraction above one half: the
\* days are the integer below the product
C22_Witness ==
    /\ call = "forecast_crime_timeline"
    /\ \E i \in 1..Len(result) :
          /\ result[i].v.days \in 31..364
          /\ RoundHalfEven(DayProduct(result[i].v)) = result[i].v.days + 1

\* C23, as stated: every forecast's confidence interval is (round(days *
\* 0.7), round(days * 1.4)), the products rounded to the nearest integer.
C23_RoundedInterval ==
    call = "forecast_crime_timeline" =>
        \A i \in 1..Len(result) :
            /\ result[i].v.ci_lower = RoundHalfEven(Q(7 * result[i].v.days, 10))
            /\ result[i].v.ci_upper = RoundHalfEven(Q(14 * result[i].v.days, 10))

\* C23, amended: every forecast's confidence interval is (int(days * 0.7),
\* int(days * 1.4)): the double products truncated.  That is the floor of
\* the decimal product, and one less for the days whose decimal product is
\* an integer that the double product falls short of (0.7: days 90, 170,
\* 180, 330, 340, 350, 360; 1.4: days 45, 85, 90, 165, 170, 175, 180 and every
\* multiple of 5 from 325 to 365).
C23_TruncatedInterval ==
    call = "forecast_crime_timeline" =>
        \A i \in 1..Len(result) :
            LET Interval(days) ==
                    /\ result[i].v.ci_lower =
                          (7 * days) \div 10
                          - (IF days \in {90, 170, 180, 330, 340, 350, 360} THEN 1 ELSE 0)
                    /\ result[i].v.ci_upper =
                          (14 * days) \div 10
                          - (IF days \in {45, 85, 90, 165, 170, 175, 180}
                                          \cup {5 * k : k \in 65..73} THEN 1 ELSE 0)
            IN  Interval(result[i].v.days)

\* a forecast whose days * 0.7 has a fraction above one half: ci_lower is the
\* integer below it
C23_Witness ==
    /\ call = "forecast_crime_timeline"
    /\ \E i \in 1..Len(result) :
          /\ (7 * result[i].v.days) % 10 > 5
          /\ result[i].v.ci_lower = (7 * result[i].v.days) \div 10

\* C24: the three forecast modifiers are: age_modifier 0.8 for age < 25, 0.9
\* for < 35, 1.1 for < 45, else 1.3; pattern_modifier from the table
\* {mixed_unstable 0.9, chronic_criminal 0.7, escalating 0.6, deescalating
\* 1.3, single 1.5, unknown 1.0}, further multiplied by 0.9 for
\* chronic_criminal with Krazha or Grabezh and by 0.8 for escalating with
\* Razboy or Ubiystvo; social_modifier the product of 0.85 if has_property =
\* 0, 0.9 if has_job = 0 and 0.8 if substance_abuse = 1, starting from 1.0.
C24_Modifiers ==
    /\ call = "_get_age_modifier" =>
          LET Age(age) ==
                  result = CASE age <= 24       -> Q(8, 10)
                             [] age \in 25..34  -> Q(9, 10)
                             [] age \in 35..44  -> Q(11, 10)
                             [] OTHER           -> Q(13, 10)
          IN  Age(Get(person_data, "current_age", 35))
    /\ call = "_get_pattern_modifier" =>
          LET Table(pattern) ==
                  CASE pattern = "mixed_unstable"   -> 90
                    [] pattern = "chronic_criminal" -> 70
                    [] pattern = "escalating"       -> 60
                    [] pattern = "deescalating"     -> 130
                    [] pattern = "single"           -> 150
                    [] OTHER                        -> 100
              Further(pattern, crime_type) ==
                  CASE pattern = "chronic_criminal" /\ crime_type \in {"Krazha", "Grabezh"} -> 9
                    [] pattern = "escalating" /\ crime_type \in {"Razboy", "Ubiystvo"} -> 8
                    [] OTHER -> 10
              Pattern(pattern) ==
                  result.modifier = Q(Table(pattern) * Further(pattern, result.crime_type), 1000)
          IN  Pattern(Get(person_data, "pattern_type", "unknown"))
    /\ call = "_get_social_modifier" =>
          LET Flag(name) == Get(person_data, name, 0)
          IN  result = Q((IF Flag("has_property") = 0 THEN 85 ELSE 100)
                         * (IF Flag("has_job") = 0 THEN 9 ELSE 10)
                         * (IF Flag("substance_abuse") = 1 THEN 8 ELSE 10), 10000)

\* the pattern modifier of an escalating record for Ubiystvo: 0.6 * 0.8
C24_Witness ==
    /\ call = "_get_pattern_modifier"
    /\ person_data = [pattern_type |-> "escalating"]
    /\ result = [crime_type |-> "Ubiystvo", modifier |-> Q(48, 100)]

HistoryWithin(row, hundredths) ==
    (/\ call = "_calculate_history_score"
     /\ person_data = [total_cases |-> row[1], criminal_count |-> row[2],
                       admin_count |-> row[3]])
    => QLt(QAbs(QSub(result, Q(hundredths, 100))), Q(1, 10))

AgeEquals(row, expected) ==
    (/\ call = "_calculate_age_score"
     /\ person_data = [current_age |-> row[1], age_at_first_violation |-> row[2]])
    => result = QInt(expected)

C28_FirstIsFraud ==
    /\ call = "forecast_crime_timeline" =>
          /\ Len(result) > 0
          /\ result[1].k = "Moshennichestvo"
          /\ result[1].v.crime_type = "Moshennichestvo"
          /\ \A i \in 1..Len(result) : result[1].v.days <= result[i].v.days
    /\ call = "quick_risk_assessment" =>
          result.most_likely_crime.crime_type = "Moshennichestvo"

\* the closest race: an escalating record, whose Ubiystvo forecast carries
\* the further factor 0.8, still has Moshennichestvo first
C28_Witness ==
    /\ call = "forecast_crime_timeline"
    /\ person_data.pattern_type = "escalating"
    /\ result[1].k = "Moshennichestvo"
    /\ result[2].k = "Ubiystvo"
    /\ result[2].v.days - result[1].v.days \in 1..3

\* C29: for every input record the unclamped sum of the six weighted
\* components lies between 1.55 and 9.45, so the final clamp to [0,10] of
\* calculate_risk_score never changes the value and risk_score is never 0
\* and never 10.
C29_SumRange ==
    call = "calculate_risk_score" =>
        LET Holds(sum) ==
                /\ QLe(Q(155, 100), sum)
                /\ QLe(sum, Q(945, 100))
                /\ result.risk_score.q = sum
                /\ result.risk_score.q # QInt(0)
                /\ result.risk_score.q # QInt(10)
        IN  Holds(QAdd(result.components.pattern,
                  QAdd(result.components.history,
                  QAdd(result.components.time,
                  QAdd(result.components.age,
                  QAdd(result.components.social,
                       result.components.escalation))))))

\* the riskiest record: every component at its largest, the sum 9.45
C29_Witness ==
    /\ call = "calculate_risk_score"
    /\ result.components = [pattern    |-> Q(225, 100), history    |-> QInt(2),
                            time       |-> Q(15, 10),   age        |-> QInt(1),
                            social     |-> Q(135, 100), escalation |-> Q(135, 100)]
    /\ result.risk_score.q = Q(945, 100)

\* C30: for every score (of the scale, 0 to 10) the four risk-band functions
\* agree:
\* get_risk_category_by_score(score), data_loader's get_risk_category(score)
\* and the label returned by get_risk_level(score) are the same string, and
\* get_risk_level_key(score) is the key of the RISK_CATEGORIES entry that
\* carries that label and whose range [lo, hi) contains the score (the
\* critical range also containing 10).
C30_BandsAgree ==
    /\ call = "get_risk_category_by_score" =>
          /\ result = get_risk_category(score_arg)
          /\ result = get_risk_level(score_arg)[1]
    /\ call = "get_risk_category" =>
          /\ result = get_risk_category_by_score(score_arg)
          /\ result = get_risk_level(score_arg)[1]
    /\ call = "get_risk_level" =>
          /\ result[1] = get_risk_category_by_score(score_arg)
          /\ result[1] = get_risk_category(score_arg)
    /\ call = "get_risk_level_key" =>
          LET InRange(range) ==
                  /\ FlGe(score_arg, range[1])
                  /\ \/ FlLt(score_arg, range[2])
                     \/ range[2] = 10 /\ score_arg = Fl(QInt(10), 0)
          IN  /\ result \in DOMAIN RISK_CATEGORIES
              /\ RISK_CATEGORIES[result].label = get_risk_level(score_arg)[1]
              /\ RISK_CATEGORIES[result].label = get_risk_category(score_arg)
              /\ RISK_CATEGORIES[result].label = get_risk_category_by_score(score_arg)
              /\ (FlGe(score_arg, 0) /\ ~FlGt(score_arg, 10))
                 => InRange(RISK_CATEGORIES[result].range)
              /\ \A key \in DOMAIN RISK_CATEGORIES \ {result} :
                    ~InRange(RISK_CATEGORIES[key].range)

\* the key of exactly 7.0 is critical, the band that starts there
C30_Witness ==
    /\ call = "get_risk_level_key"
    /\ score_arg = Fl(QInt(7), 0)
    /\ result = "critical"
    /\ RISK_CATEGORIES[result].label = get_risk_category_by_score(score_arg)

====
